---- MODULE Spec2Model ----
(***************************************************************************)
(* Model of the work-session reconstruction and payroll aggregation core   *)
(* of payroll_server: app/services/payroll_service.py and                  *)
(* app/services/biweekly_report_service.py.                                *)
(*                                                                         *)
(* Representation.                                                         *)
(*  - A timestamp (the ISO string of a time entry, the datetime built from *)
(*    it) is the number of seconds since 00:00:00 of day 0.                *)
(*  - A calendar date (the '%Y-%m-%d' string) is the day number            *)
(*    timestamp \div SecondsPerDay; the string order used by sorted() is   *)
(*    the order of the day numbers.                                        *)
(*  - An hour figure (a float that the code rounds to 2 decimals) is the   *)
(*    integer number of hundredths of an hour.                             *)
(*  - Python's None is the empty sequence, a present value v is <<v>>.     *)
(*  - wifi_network_in/out and employee_name are carried through the code   *)
(*    unchanged and are left out.                                          *)
(***************************************************************************)
EXTENDS Integers, Sequences, FiniteSets

VARIABLES
    time_entries,      \* calculate_work_sessions: the argument
    idx,               \* position of the for loop of line 14
    current_session,   \* the open session slot (None or <<dict>>)
    sessions,          \* the list of session dicts built by the loop
    work_sessions,     \* the list of WorkSession returned (line 60)
    pc,                \* "loop", "raised", "done", "daily", "payroll"
    query_date,        \* calculate_daily_summary: the date argument
    daily_summary,     \* result of calculate_daily_summary
    payroll_summary,   \* result of calculate_payroll_summary
    period,            \* parse_period_string: the label argument, a sequence of characters
    year,              \* parse_period_string: the year argument (None or <<y>>)
    period_pc,         \* "call" before parse_period_string runs, "returned" after
    period_result,     \* the BiweeklyPeriod returned or the ValueError raised
    stat_sessions,     \* calculate_biweekly_stats: the sessions argument
    stats_pc,          \* "call" before calculate_biweekly_stats runs, "returned" after
    stats,             \* the dict returned by calculate_biweekly_stats
    fetched_entries,   \* detect_time_entry_problems: entries, the rows fetched at line 31
    query_start,       \* detect_time_entry_problems: the start_date argument
    query_end,         \* detect_time_entry_problems: the end_date argument
    employee_found,    \* whether the SELECT of line 17 finds the employee
    pidx,              \* position of the for loop of line 36
    problems,          \* the list of problems built so far
    problems_pc,       \* "lookup", "scan", "returned"
    report_period,     \* generate_biweekly_html_report: the period argument
    report_entries,    \* get_employee_biweekly_report_html: the entries fetched at line 492
    report_sessions,   \* generate_biweekly_html_report: the sessions argument
    report_stats,      \* generate_biweekly_html_report: the stats argument
    daily_data,        \* the dict of lines 155-172, day of month -> cells
    current_date,      \* the date of the while loop of line 434
    rows,              \* the table rows emitted so far
    report_pc,         \* "fetch", "data", "header", "rows", "done", "raised"
    db_entries,        \* the rows of table time_entries, in the order of their insertion
    qr_sessions,       \* the rows of table qr_sessions, in the order of their insertion
    now,               \* the reading datetime.now() gives next
    handlers,          \* for each server worker, the request it is handling
    responses,         \* the responses of the clock endpoints so far, oldest first
    today,             \* the convenience endpoints: the date datetime.now() gives
    current_biweekly,  \* the period get_current_biweekly_report asks the report for
    previous_biweekly  \* the period get_previous_biweekly_report asks the report for

sessionVars == <<time_entries, idx, current_session, sessions, work_sessions, pc>>
aggregateVars == <<query_date, daily_summary, payroll_summary>>
periodVars == <<period, year, period_pc, period_result>>
statsVars == <<stat_sessions, stats_pc, stats>>
problemVars == <<fetched_entries, query_start, query_end, employee_found, pidx, problems, problems_pc>>
reportVars == <<report_period, report_entries, report_sessions, report_stats, daily_data,
                current_date, rows, report_pc>>
coreVars == <<sessionVars, aggregateVars, periodVars, statsVars, problemVars>>
serverVars == <<db_entries, qr_sessions, now, handlers, responses>>
convenienceVars == <<today, current_biweekly, previous_biweekly>>
serviceVars == <<reportVars, serverVars, convenienceVars>>
vars == <<sessionVars, aggregateVars, periodVars, statsVars, problemVars, serviceVars>>

----------------------------------------------------------------------------
(* Bounds and input domains *)

MaxEntries == 4

SecondsPerMinute == 60
SecondsPerHour == 3600
SecondsPerDay == 24 * SecondsPerHour

None == <<>>
Some(v) == <<v>>
IsNone(o) == o = <<>>
Get(o) == o[1]

At(day, h, m, s) == day * SecondsPerDay + h * SecondsPerHour + m * SecondsPerMinute + s

\* Day 0 08:00:00 and 17:30:20, day 1 09:00:00 and 12:00:40.
Timestamps == { At(0, 8, 0, 0), At(0, 17, 30, 20), At(1, 9, 0, 0), At(1, 12, 0, 40) }

ClockTypes == {"IN", "OUT"}
EmployeeIds == {1}

TimeEntry == [employee_id : EmployeeIds, clock_type : ClockTypes, timestamp : Timestamps]

\* All sequences over S of length 0..n
RECURSIVE SeqsUpTo(_, _)
SeqsUpTo(S, n) ==
    IF n = 0 THEN { <<>> }
    ELSE LET shorter == SeqsUpTo(S, n - 1)
         IN  shorter \cup { Append(q, x) : q \in { r \in shorter : Len(r) = n - 1 }, x \in S }

\* Dates a summary is asked for: the two days of Timestamps and a day without entries.
QueryDates == {0, 1, 2}

----------------------------------------------------------------------------
(* Arithmetic helpers *)

\* int(x / d) for d > 0: Python's int() truncates towards zero.
TruncDiv(n, d) == IF n >= 0 THEN n \div d ELSE -((-n) \div d)

\* round(n / d) to the nearest integer, d > 0; an exact tie goes to the even
\* neighbour (the inputs of this model never produce a tie: every timestamp is
\* a multiple of 20 seconds, and a tie of seconds/36 needs seconds = 18 mod 36).
RoundDiv(n, d) ==
    LET q == n \div d
        r == n % d
    IN  IF 2 * r < d THEN q
        ELSE IF 2 * r > d THEN q + 1
        ELSE IF q % 2 = 0 THEN q ELSE q + 1

Min(a, b) == IF a <= b THEN a ELSE b
Max(a, b) == IF a >= b THEN a ELSE b

RECURSIVE SumSeq(_)
SumSeq(q) == IF q = <<>> THEN 0 ELSE q[1] + SumSeq(Tail(q))

----------------------------------------------------------------------------
(* calculate_work_sessions, payroll_service.py lines 9-60 *)

\* duration.total_seconds() / 60 through int(): line 33
DurationMinutes(seconds) == TruncDiv(seconds, SecondsPerMinute)

\* round(duration.total_seconds() / 3600, 2) in hundredths of an hour: line 34
DurationHours(seconds) == RoundDiv(seconds * 100, SecondsPerHour)

\* session['clock_in'].strftime('%Y-%m-%d'): line 57
DateOf(timestamp) == timestamp \div SecondsPerDay

\* mutant: the duration keys are initialised to 0 with the other keys
NewSession_ZeroDuration(entry) ==
    [ employee_id      |-> entry.employee_id,
      clock_in         |-> entry.timestamp,
      clock_out        |-> None,
      is_complete      |-> FALSE,
      duration_minutes |-> Some(0),
      duration_hours   |-> Some(0) ]

\* lines 17-24: the dict of a new open session; the duration keys are absent,
\* which session.get() reads back as None.
NewSession(entry) ==
    [ employee_id      |-> entry.employee_id,
      clock_in         |-> entry.timestamp,
      clock_out        |-> None,
      is_complete      |-> FALSE,
      duration_minutes |-> None,
      duration_hours   |-> None ]

\* lines 27-34: complete the open session with an OUT entry
CloseSession(session, entry) ==
    [ session EXCEPT
        !.clock_out        = Some(entry.timestamp),
        !.is_complete      = TRUE,
        !.duration_minutes = Some(DurationMinutes(entry.timestamp - session.clock_in)),
        !.duration_hours   = Some(DurationHours(entry.timestamp - session.clock_in)) ]

\* mutant: an IN is taken only when no session is open (first-IN-wins)
StartsSession_OnlyWhenClosed(entry, cur) == entry.clock_type = "IN" /\ IsNone(cur)

\* line 15: the branch that starts a session
StartsSession(entry, cur) == entry.clock_type = "IN"

\* mutant: line 25 without `and current_session`
CompletesSession_AnyOut(entry, cur) == entry.clock_type = "OUT"

\* line 25: the branch that completes the open session (a dict is truthy)
CompletesSession(entry, cur) == entry.clock_type = "OUT" /\ ~IsNone(cur)

\* lines 27-34 subscript current_session: with None in the slot the
\* assignment of line 27 raises TypeError
RaisesTypeError(entry, cur) ==
    ~StartsSession(entry, cur) /\ CompletesSession(entry, cur) /\ IsNone(cur)

\* mutant: line 37 is missing, the slot stays occupied after an OUT
LoopBody_NoReset(st, entry) ==
    IF StartsSession(entry, st.cur)
    THEN [ cur |-> Some(NewSession(entry)), out |-> st.out ]
    ELSE IF CompletesSession(entry, st.cur)
    THEN [ cur |-> st.cur, out |-> Append(st.out, CloseSession(Get(st.cur), entry)) ]
    ELSE st

\* mutant: an OUT with no session open emits a zero-length session
LoopBody_OrphanOutEmits(st, entry) ==
    IF StartsSession(entry, st.cur)
    THEN [ cur |-> Some(NewSession(entry)), out |-> st.out ]
    ELSE IF CompletesSession(entry, st.cur)
    THEN [ cur |-> None, out |-> Append(st.out, CloseSession(Get(st.cur), entry)) ]
    ELSE IF entry.clock_type = "OUT"
    THEN [ cur |-> None, out |-> Append(st.out, CloseSession(NewSession(entry), entry)) ]
    ELSE st

\* lines 15-37: one iteration of the loop on state st = [cur, out]
LoopBody(st, entry) ==
    IF StartsSession(entry, st.cur)
    THEN [ cur |-> Some(NewSession(entry)), out |-> st.out ]
    ELSE IF CompletesSession(entry, st.cur)
    THEN [ cur |-> None, out |-> Append(st.out, CloseSession(Get(st.cur), entry)) ]
    ELSE st

\* mutant: lines 40-41 are missing, the open session is lost
HandleIncomplete_Dropped(st) == st.out

\* lines 40-41: a session still open after the loop is appended as it is
HandleIncomplete(st) ==
    IF ~IsNone(st.cur) THEN Append(st.out, Get(st.cur)) ELSE st.out

\* lines 46-58: the WorkSession built from a session dict
ToWorkSession(session) ==
    [ session_id       |-> <<session.employee_id, session.clock_in>>,
      employee_id      |-> session.employee_id,
      clock_in         |-> session.clock_in,
      clock_out        |-> session.clock_out,
      duration_minutes |-> session.duration_minutes,
      duration_hours   |-> session.duration_hours,
      is_complete      |-> session.is_complete,
      date             |-> DateOf(session.clock_in) ]

ConvertSessions(q) == [ i \in 1..Len(q) |-> ToWorkSession(q[i]) ]

RECURSIVE RunLoop(_, _)
RunLoop(st, entries) ==
    IF entries = <<>> THEN st ELSE RunLoop(LoopBody(st, entries[1]), Tail(entries))

\* the whole function, lines 9-60
CalculateWorkSessions(entries) ==
    ConvertSessions(HandleIncomplete(RunLoop([cur |-> None, out |-> <<>>], entries)))

----------------------------------------------------------------------------
(* calculate_daily_summary, payroll_service.py lines 62-89 *)

\* regular hours per day before overtime (8.0), in hundredths of an hour
RegularHoursPerDay == 8 * 100

\* mutant: the sessions are not filtered by date
DateSessions_AllDates(sess, date) == sess

\* line 71: [s for s in sessions if s.date == date]
DateSessions(sess, date) == SelectSeq(sess, LAMBDA s : s.date = date)

\* line 73: sum(s.duration_hours or 0 for s in date_sessions if s.is_complete)
HoursOrZero(s) == IF IsNone(s.duration_hours) THEN 0 ELSE Get(s.duration_hours)

CompleteHours(sess) ==
    LET complete == SelectSeq(sess, LAMBDA s : s.is_complete)
    IN  SumSeq([ i \in 1..Len(complete) |-> HoursOrZero(complete[i]) ])

\* line 74: any(not s.is_complete for s in date_sessions)
HasIncomplete(sess) == \E i \in 1..Len(sess) : ~sess[i].is_complete

\* line 77: min(total_hours, 8.0)
RegularHours(total_hours) == Min(total_hours, RegularHoursPerDay)

\* mutant: the max(0, ...) is missing
OvertimeHours_NoClamp(total_hours) == total_hours - RegularHoursPerDay

\* line 78: max(0, total_hours - 8.0)
OvertimeHours(total_hours) == Max(0, total_hours - RegularHoursPerDay)

\* line 64: if not sessions: return None
NoSummary(sess, date) == sess = <<>>

\* lines 62-89. round(x, 2) of a figure already in hundredths changes nothing.
CalculateDailySummary(sess, date) ==
    IF NoSummary(sess, date) THEN None
    ELSE LET date_sessions == DateSessions(sess, date)
             total_hours   == CompleteHours(date_sessions)
         IN  Some([ employee_id            |-> sess[1].employee_id,
                    date                   |-> date,
                    total_hours            |-> total_hours,
                    sessions               |-> date_sessions,
                    has_incomplete_session |-> HasIncomplete(date_sessions),
                    overtime_hours         |-> OvertimeHours(total_hours),
                    regular_hours          |-> RegularHours(total_hours) ])

----------------------------------------------------------------------------
(* calculate_payroll_summary, payroll_service.py lines 91-123 *)

RECURSIVE SortedSeq(_)
SortedSeq(S) ==
    IF S = {} THEN <<>>
    ELSE LET m == CHOOSE x \in S : \A y \in S : x <= y
         IN  <<m>> \o SortedSeq(S \ {m})

\* insert x into the ascending sequence q
RECURSIVE Insert(_, _)
Insert(q, x) ==
    IF q = <<>> THEN <<x>>
    ELSE IF x <= q[1] THEN <<x>> \o q
    ELSE <<q[1]>> \o Insert(Tail(q), x)

RECURSIVE SortedDatesOf(_)
SortedDatesOf(sess) ==
    IF sess = <<>> THEN <<>> ELSE Insert(SortedDatesOf(Tail(sess)), sess[1].date)

\* mutant: the set() is missing, a date repeats once per session
UniqueDates_PerSession(sess) == SortedDatesOf(sess)

\* line 100: sorted(set(s.date for s in sessions))
UniqueDates(sess) == SortedSeq({ sess[i].date : i \in 1..Len(sess) })

\* lines 103-106: one daily summary per date, kept when it is not None
RECURSIVE DailySummaries(_, _)
DailySummaries(sess, dates) ==
    IF dates = <<>> THEN <<>>
    ELSE LET daily == CalculateDailySummary(sess, dates[1])
         IN  (IF ~IsNone(daily) THEN <<Get(daily)>> ELSE <<>>)
             \o DailySummaries(sess, Tail(dates))

\* lines 108-110: the sum of one field over the daily summaries
SumTotalHours(dailies) == SumSeq([ i \in 1..Len(dailies) |-> dailies[i].total_hours ])
SumRegularHours(dailies) == SumSeq([ i \in 1..Len(dailies) |-> dailies[i].regular_hours ])
SumOvertimeHours(dailies) == SumSeq([ i \in 1..Len(dailies) |-> dailies[i].overtime_hours ])

\* lines 91-123
CalculatePayrollSummary(sess, start_date, end_date) ==
    IF sess = <<>> THEN None
    ELSE LET daily_summaries == DailySummaries(sess, UniqueDates(sess))
         IN  Some([ employee_id       |-> sess[1].employee_id,
                    start_date        |-> start_date,
                    end_date          |-> end_date,
                    total_hours       |-> SumTotalHours(daily_summaries),
                    regular_hours     |-> SumRegularHours(daily_summaries),
                    overtime_hours    |-> SumOvertimeHours(daily_summaries),
                    total_days_worked |-> Len(daily_summaries),
                    sessions          |-> sess,
                    daily_summaries   |-> daily_summaries ])

----------------------------------------------------------------------------
(* get_employee_timesheet, payroll.py lines 27-64: the report of one        *)
(* employee over a date range, from the employee's entries in timestamp     *)
(* order                                                                    *)

\* lines 44-52: WHERE date(timestamp) BETWEEN ? AND ? of entries already in
\* the order of ORDER BY timestamp ASC
EntriesBetween(history, start, end) ==
    SelectSeq(history, LAMBDA e : start <= DateOf(e.timestamp) /\ DateOf(e.timestamp) <= end)

\* lines 55-64
EmployeeTimesheet(history, start, end) ==
    CalculatePayrollSummary(CalculateWorkSessions(EntriesBetween(history, start, end)),
                            start, end)

----------------------------------------------------------------------------
(* BiweeklyPeriod and parse_period_string, biweekly_report_service.py       *)
(* lines 10-96. A label is a sequence of one-character strings; a date is   *)
(* the record [year, month, day] that datetime(year, month, day) holds.     *)

MaxSuffixLen == 3

Digits == {"0", "1", "2", "3", "4", "5", "6", "7", "8", "9"}
DigitChars == <<"0", "1", "2", "3", "4", "5", "6", "7", "8", "9">>
Whitespace == {" ", "\t", "\n"}
UpperLetters == <<"A", "B", "C", "D", "E", "F", "G", "H", "I", "J", "K", "L", "M", "N", "O", "P", "Q", "R", "S", "T", "U", "V", "W", "X", "Y", "Z">>
LowerLetters == <<"a", "b", "c", "d", "e", "f", "g", "h", "i", "j", "k", "l", "m", "n", "o", "p", "q", "r", "s", "t", "u", "v", "w", "x", "y", "z">>

\* str.lower(), one character and a whole string
LowerChar(c) ==
    IF \E i \in 1..Len(UpperLetters) : UpperLetters[i] = c
    THEN LowerLetters[CHOOSE i \in 1..Len(UpperLetters) : UpperLetters[i] = c]
    ELSE c

Lower(str) == [ i \in 1..Len(str) |-> LowerChar(str[i]) ]

\* str.strip()
RECURSIVE StripLeft(_)
StripLeft(str) ==
    IF str # <<>> /\ str[1] \in Whitespace THEN StripLeft(Tail(str)) ELSE str

RECURSIVE StripRight(_)
StripRight(str) ==
    IF str # <<>> /\ str[Len(str)] \in Whitespace
    THEN StripRight(SubSeq(str, 1, Len(str) - 1)) ELSE str

Strip(str) == StripRight(StripLeft(str))

\* lines 66-70: the position of the first character with isdigit(), counted
\* from 1; 0 stands for digit_pos = None. (The labels of this model are ASCII.)
DigitPos(str) ==
    IF \E i \in 1..Len(str) : str[i] \in Digits
    THEN CHOOSE i \in 1..Len(str) :
            str[i] \in Digits /\ \A j \in 1..(i - 1) : str[j] \notin Digits
    ELSE 0

\* int(text) of line 80. Python accepts surrounding whitespace, a sign, and
\* decimal digits with single underscores between digits; leading zeros are
\* allowed. Anything else raises ValueError.
IntBody(text) ==
    LET t == Strip(text)
    IN  IF t # <<>> /\ t[1] \in {"+", "-"} THEN Tail(t) ELSE t

IntParses(text) ==
    LET b == IntBody(text)
    IN  /\ b # <<>>
        /\ \A i \in 1..Len(b) : b[i] \in Digits \cup {"_"}
        /\ b[1] \in Digits
        /\ b[Len(b)] \in Digits
        /\ \A i \in 1..(Len(b) - 1) : ~(b[i] = "_" /\ b[i + 1] = "_")

DigitValue(c) == (CHOOSE i \in 1..10 : DigitChars[i] = c) - 1

RECURSIVE DigitsValue(_, _)
DigitsValue(b, acc) ==
    IF b = <<>> THEN acc
    ELSE IF b[1] = "_" THEN DigitsValue(Tail(b), acc)
    ELSE DigitsValue(Tail(b), 10 * acc + DigitValue(b[1]))

IntValue(text) ==
    LET t == Strip(text)
        v == DigitsValue(IntBody(text), 0)
    IN  IF t # <<>> /\ t[1] = "-" THEN -v ELSE v

\* line 81: half not in [1, 2]
ValidHalf(half) == half \in {1, 2}

\* mutant: the text is compared with "1" and "2" instead of being parsed
HalfAccepted_Exact(half_str) == half_str \in { <<"1">>, <<"2">> }

\* lines 79-84: the half is accepted; both failures end in the ValueError of line 84
HalfAccepted(half_str) == IntParses(half_str) /\ ValidHalf(IntValue(half_str))

\* calendar.month_name[1..12]
MonthName == <<
    <<"J", "a", "n", "u", "a", "r", "y">>,
    <<"F", "e", "b", "r", "u", "a", "r", "y">>,
    <<"M", "a", "r", "c", "h">>,
    <<"A", "p", "r", "i", "l">>,
    <<"M", "a", "y">>,
    <<"J", "u", "n", "e">>,
    <<"J", "u", "l", "y">>,
    <<"A", "u", "g", "u", "s", "t">>,
    <<"S", "e", "p", "t", "e", "m", "b", "e", "r">>,
    <<"O", "c", "t", "o", "b", "e", "r">>,
    <<"N", "o", "v", "e", "m", "b", "e", "r">>,
    <<"D", "e", "c", "e", "m", "b", "e", "r">> >>

\* line 87: the keys of month_names = {name.lower(): i}
MonthNameKeys == [ m \in 1..12 |-> Lower(MonthName[m]) ]

\* line 88: the keys of month_abbr = {name.lower()[:3]: i}
MonthAbbrKeys == [ m \in 1..12 |-> SubSeq(Lower(MonthName[m]), 1, 3) ]

\* month_names.get(key)
MonthNamesGet(key) ==
    IF \E m \in 1..12 : MonthNameKeys[m] = key
    THEN Some(CHOOSE m \in 1..12 : MonthNameKeys[m] = key)
    ELSE None

\* month_abbr.get(key)
MonthAbbrGet(key) ==
    IF \E m \in 1..12 : MonthAbbrKeys[m] = key
    THEN Some(CHOOSE m \in 1..12 : MonthAbbrKeys[m] = key)
    ELSE None

\* a or b on optional integers: a when it is truthy (present and not 0)
OrElse(a, b) == IF ~IsNone(a) /\ Get(a) # 0 THEN a ELSE b

\* lines 90-91
MonthLookup(month_name) ==
    LET month_key == Lower(month_name)
    IN  OrElse(MonthNamesGet(month_key), MonthAbbrGet(month_key))

\* mutant: every fourth year is a leap year (the century rule is missing)
IsLeap_EveryFourth(y) == y % 4 = 0

\* calendar.isleap
IsLeap(y) == y % 4 = 0 /\ (y % 100 # 0 \/ y % 400 = 0)

\* calendar.mdays[1..12]
MDays == <<31, 28, 31, 30, 31, 30, 31, 31, 30, 31, 30, 31>>

\* calendar.monthrange(year, month)[1], line 25
LastDay(y, month) == MDays[month] + (IF month = 2 /\ IsLeap(y) THEN 1 ELSE 0)

Date(y, month, day) == [ year |-> y, month |-> month, day |-> day ]

\* lines 19-21: the range of half 1
FirstHalfRange(y, month) ==
    [ start_date |-> Date(y, month, 1), end_date |-> Date(y, month, 15) ]

\* lines 23-26: the range of the other half
SecondHalfRange(y, month) ==
    [ start_date |-> Date(y, month, 16), end_date |-> Date(y, month, LastDay(y, month)) ]

\* BiweeklyPeriod.__init__, lines 12-26
BiweeklyPeriod(y, month, half) ==
    LET range == IF half = 1 THEN FirstHalfRange(y, month) ELSE SecondHalfRange(y, month)
    IN  [ year       |-> y,
          month      |-> month,
          half       |-> half,
          month_name |-> MonthName[month],
          start_date |-> range.start_date,
          end_date   |-> range.end_date ]

\* the years given as argument or read from the clock
Years == {1900, 2000, 2024, 2025}

Raise(message) == [ raised |-> Some(message), value |-> None ]
Returns(v) == [ raised |-> None, value |-> Some(v) ]

\* lines 57-58: the years the call may work with; the clock (datetime.now())
\* is read only when no year is given
YearChoices(year_arg) == IF IsNone(year_arg) THEN Years ELSE { Get(year_arg) }

\* parse_period_string, lines 60-96, with the year of lines 57-58 in y
ParsePeriodString(label, y) ==
    LET stripped  == Strip(label)
        digit_pos == DigitPos(stripped)
        month_name == Strip(SubSeq(stripped, 1, digit_pos - 1))
        half_str  == Strip(SubSeq(stripped, digit_pos, Len(stripped)))
        month     == MonthLookup(month_name)
    IN  IF stripped = <<>> THEN Raise("Period string cannot be empty")
        ELSE IF digit_pos = 0 THEN Raise("No period number found")
        ELSE IF ~HalfAccepted(half_str) THEN Raise("Invalid period number")
        ELSE IF IsNone(month) THEN Raise("Invalid month name")
        ELSE Returns(BiweeklyPeriod(y, Get(month), IntValue(half_str)))

(* Inputs of parse_period_string *)

Str_July == <<"J", "u", "l", "y">>
Str_Space == <<" ">>

\* text before the first digit: every month name and its three-letter form,
\* other spellings of July and March, and tokens that name no month
MonthTokens ==
    { MonthName[m] : m \in 1..12 }
    \cup { SubSeq(MonthName[m], 1, 3) : m \in 1..12 }
    \cup { Lower(Str_July), <<"J", "U", "L", "Y">>, <<"m", "A", "r">>,
           Str_Space \o Str_July, Str_July \o Str_Space, <<"J", "u", " ", "l", "y">>,
           <<>>, <<"F", "o", "o">>, <<"S", "e", "p", "t">>, <<"J", "u">>, <<"J", "u", "l", "y", "+">> }

SuffixChars == {"0", "1", "2", "3", " ", "_"}

\* text from the first digit on: empty, or a digit followed by up to
\* MaxSuffixLen - 1 characters
Suffixes ==
    { <<>> } \cup
    { q \in SeqsUpTo(SuffixChars, MaxSuffixLen) : q # <<>> /\ q[1] \in Digits }

\* labels with a digit in front of the month
DigitFirstLabels == { <<"2">> \o Str_July, <<"1">> \o Str_July \o <<"2">> }

Labels == { t \o q : t \in MonthTokens, q \in Suffixes } \cup DigitFirstLabels

----------------------------------------------------------------------------
(* calculate_biweekly_stats, biweekly_report_service.py lines 98-143 *)
(* Hour figures are hundredths of an hour; the figures rounded to one      *)
(* decimal are tenths of an hour; wage_payout is hundredths of a dollar.   *)
(* The float sums carry an error far below half a hundredth, so round(x,2) *)
(* of a sum of hundredths is that sum.                                     *)

MaxSessions == 3

\* the shifts of the sessions handed to calculate_biweekly_stats:
\* <<day, clock-in, clock-out>>; 6.0 h, 5.5 h, 7.0 h, exactly 5.0 h,
\* 5 h 20 s (5.01 h), 4.0 h, 0 h and a clock-out before the clock-in.
Shifts ==
    { <<0, At(0, 8, 0, 0), At(0, 14, 0, 0)>>,
      <<1, At(0, 8, 0, 0), At(0, 13, 30, 0)>>,
      <<2, At(0, 8, 0, 0), At(0, 15, 0, 0)>>,
      <<0, At(0, 8, 0, 0), At(0, 13, 0, 0)>>,
      <<1, At(0, 8, 0, 0), At(0, 13, 0, 20)>>,
      <<2, At(0, 9, 0, 0), At(0, 13, 0, 0)>>,
      <<1, At(0, 8, 0, 0), At(0, 8, 0, 0)>>,
      <<2, At(0, 17, 30, 0), At(0, 8, 0, 0)>> }

StatEntry(kind, day, clock) ==
    [ employee_id |-> 1, clock_type |-> kind, timestamp |-> day * SecondsPerDay + clock ]

\* the WorkSessions calculate_work_sessions builds from the shifts, and a
\* session left open on day 0
StatSessions ==
    { ToWorkSession(CloseSession(NewSession(StatEntry("IN", s[1], s[2])),
                                 StatEntry("OUT", s[1], s[3]))) : s \in Shifts }
    \cup { ToWorkSession(NewSession(StatEntry("IN", 0, At(0, 8, 0, 0)))) }

\* hours above which the half-hour break is deducted (5), line 114
BreakThresholdHours == 5 * 100

\* the break deducted (0.5), line 114
BreakHours == 50

\* the hourly rate of line 133 (13.0)
HourlyRate == 13

\* mutant: the break is deducted from a session of exactly 5 hours too
LessBreak_AtFive(s) ==
    IF ~IsNone(s.duration_hours) /\ Get(s.duration_hours) >= BreakThresholdHours
    THEN Get(s.duration_hours) - BreakHours
    ELSE HoursOrZero(s)

\* mutant: the break is never deducted
LessBreak_NoDeduction(s) == HoursOrZero(s)

\* line 114: (s.duration_hours - 0.5) if (s.duration_hours and
\* s.duration_hours > 5) else (s.duration_hours or 0)
LessBreak(s) ==
    IF ~IsNone(s.duration_hours) /\ Get(s.duration_hours) # 0
       /\ Get(s.duration_hours) > BreakThresholdHours
    THEN Get(s.duration_hours) - BreakHours
    ELSE HoursOrZero(s)

\* [s for s in sessions if s.is_complete]: lines 110, 115, 118
CompleteSessions(sess) == SelectSeq(sess, LAMBDA s : s.is_complete)

\* line 110
StatsTotalHours(sess) ==
    LET complete == CompleteSessions(sess)
    IN  SumSeq([ i \in 1..Len(complete) |-> HoursOrZero(complete[i]) ])

\* lines 113-116
StatsLessBreakHours(sess) ==
    LET complete == CompleteSessions(sess)
    IN  SumSeq([ i \in 1..Len(complete) |-> LessBreak(complete[i]) ])

\* line 118
DaysWorked(sess) == Len(CompleteSessions(sess))

\* round(n / d, 1) of a float in tenths, d > 0: the values round() can return.
\* A decimal tie is decided by the binary value of the float, which this
\* representation does not hold: both neighbours are possible.
RoundTenths(n, d) ==
    IF (2 * (n % d)) = d THEN { n \div d, (n \div d) + 1 } ELSE { RoundDiv(n, d) }

\* line 119 and round(avg_hours_per_day, 1) of line 139
AvgHoursPerDay(sess) ==
    IF DaysWorked(sess) > 0
    THEN RoundTenths(StatsLessBreakHours(sess), 10 * DaysWorked(sess))
    ELSE { 0 }

\* line 120 and round(break_time, 1) of line 140
BreakTime(sess) == RoundTenths(StatsTotalHours(sess) - StatsLessBreakHours(sess), 10)

\* datetime.strptime(session.date, '%Y-%m-%d').weekday(): lines 126-127, with day 0
\* a Friday (weekday 4), so that days 1 and 2 are the weekend
Weekday(date) == (date + 4) % 7

\* lines 123-130: the sessions, complete or not, dated on a Saturday or Sunday
WeekendDays(sess) == Len(SelectSeq(sess, LAMBDA s : Weekday(s.date) >= 5))

\* line 133
WagePayout(sess) == StatsLessBreakHours(sess) * HourlyRate

\* lines 100-108: the dict returned for an empty list; it has no
\* 'wage_payout' key
EmptyStats ==
    [ total_hours       |-> 0,
      less_break_hours  |-> 0,
      days_worked       |-> 0,
      avg_hours_per_day |-> 0,
      break_time        |-> 0,
      weekend_days      |-> 0,
      wage_payout       |-> None ]

\* lines 135-143: the dicts the function can return for a non-empty list
ComputedStats(sess) ==
    { [ total_hours       |-> StatsTotalHours(sess),
        less_break_hours  |-> StatsLessBreakHours(sess),
        days_worked       |-> DaysWorked(sess),
        avg_hours_per_day |-> a,
        break_time        |-> b,
        weekend_days      |-> WeekendDays(sess),
        wage_payout       |-> Some(WagePayout(sess)) ] :
      a \in AvgHoursPerDay(sess), b \in BreakTime(sess) }

\* the whole function, lines 98-143
CalculateBiweeklyStats(sess) ==
    IF sess = <<>> THEN { EmptyStats } ELSE ComputedStats(sess)

----------------------------------------------------------------------------
(* detect_time_entry_problems, admin_service.py lines 10-121 *)
(* A row of time_entries is modelled with the separator of its stored      *)
(* timestamp string: isoformat() of the admin endpoints writes             *)
(* 'YYYY-MM-DDTHH:MM:SS' (admin.py lines 77, 220, 263), while the datetime *)
(* bound by the clock request (clocking.py lines 102-108) and the column   *)
(* default CURRENT_TIMESTAMP of the QR validation (clocking.py line 238,   *)
(* database.py line 54) are stored as 'YYYY-MM-DD HH:MM:SS'.               *)
(* employee_name, the description and the suggested action of a problem    *)
(* are left out.                                                           *)

MaxFetched == 3

Separators == {"T", " "}

\* Day 0 09:00, 09:03, 09:05, 21:00 and 23:30, day 1 03:59:40 and 09:00.
ProblemTimestamps ==
    { At(0, 9, 0, 0), At(0, 9, 3, 0), At(0, 9, 5, 0), At(0, 21, 0, 0), At(0, 23, 30, 0),
      At(1, 3, 59, 40), At(1, 9, 0, 0) }

\* the date ranges asked for: <<start_date, end_date>>
QueryRanges == { <<0, 0>>, <<0, 1>>, <<1, 1>> }

StoredRow == [clock_type : ClockTypes, timestamp : ProblemTimestamps, separator : Separators]

\* the place of a stored timestamp string in the order of ORDER BY timestamp
\* (line 31): the strings compare by date, then by separator (' ' sorts
\* before 'T'), then by time of day
StringOrder(row) ==
    (DateOf(row.timestamp) * 2 + (IF row.separator = "T" THEN 1 ELSE 0)) * SecondsPerDay
        + (row.timestamp % SecondsPerDay)

\* date(timestamp) BETWEEN ? AND ?: line 30
InRange(row, start, end) == start <= DateOf(row.timestamp) /\ DateOf(row.timestamp) <= end

\* ORDER BY timestamp ASC: line 31
InStringOrder(q) == \A i \in 1..(Len(q) - 1) : StringOrder(q[i]) <= StringOrder(q[i + 1])

\* entry_id, the AUTOINCREMENT key of a row: the rows of a result are numbered
\* by their place in it
WithEntryIds(q) ==
    [ i \in 1..Len(q) |->
        [ entry_id |-> i, clock_type |-> q[i].clock_type, timestamp |-> q[i].timestamp,
          separator |-> q[i].separator ] ]

\* the sequences over S of length 0..n in which no row sorts before the
\* row in front of it
RECURSIVE OrderedSeqsUpTo(_, _)
OrderedSeqsUpTo(S, n) ==
    IF n = 0 THEN { <<>> }
    ELSE LET shorter == OrderedSeqsUpTo(S, n - 1)
             longest == { r \in shorter : Len(r) = n - 1 }
         IN  shorter \cup
             { Append(p[1], p[2]) :
                 p \in { c \in longest \X S :
                           c[1] = <<>> \/ StringOrder(c[1][Len(c[1])]) <= StringOrder(c[2]) } }

\* the results the SELECT of lines 26-34 can return
FetchResults(start, end) ==
    { WithEntryIds(q) :
        q \in { r \in OrderedSeqsUpTo({ row \in StoredRow : InRange(row, start, end) },
                                       MaxFetched) :
                InStringOrder(r) } }

\* minutes below which a repeated punch is a double punch, line 45
DoublePunchMinutes == 5

\* hours above which a session is long, line 64
LongSessionHours == 12

\* the hours of line 78
EarliestUsualHour == 4
LatestUsualHour == 23

\* (entry_time - prev_time).total_seconds(): lines 43, 62
SecondsSincePrevious(q, i) == q[i].timestamp - q[i - 1].timestamp

\* mutant: a gap of exactly 5 minutes is a double punch too
IsDoublePunch_AtFive(q, i) ==
    /\ i > 1
    /\ q[i].clock_type = q[i - 1].clock_type
    /\ SecondsSincePrevious(q, i) <= DoublePunchMinutes * SecondsPerMinute

\* lines 40-45: time_diff = seconds / 60; same clock_type and time_diff < 5
IsDoublePunch(q, i) ==
    /\ i > 1
    /\ q[i].clock_type = q[i - 1].clock_type
    /\ SecondsSincePrevious(q, i) < DoublePunchMinutes * SecondsPerMinute

\* mutant: a session of exactly 12 hours is long too
IsLongSession_AtTwelve(q, i) ==
    /\ i > 1
    /\ q[i].clock_type = "OUT"
    /\ q[i - 1].clock_type = "IN"
    /\ SecondsSincePrevious(q, i) >= LongSessionHours * SecondsPerHour

\* lines 58-64: session_hours = seconds / 3600; OUT after IN and session_hours > 12
IsLongSession(q, i) ==
    /\ i > 1
    /\ q[i].clock_type = "OUT"
    /\ q[i - 1].clock_type = "IN"
    /\ SecondsSincePrevious(q, i) > LongSessionHours * SecondsPerHour

\* entry_time.hour: line 77
HourOf(timestamp) == (timestamp % SecondsPerDay) \div SecondsPerHour

\* line 78: hour < 4 or hour > 23
IsUnusualHours(q, i) ==
    HourOf(q[i].timestamp) < EarliestUsualHour \/ HourOf(q[i].timestamp) > LatestUsualHour

\* the ProblemTimeEntry of lines 46-55, 65-74, 79-88, 98-107, 110-119
Problem(entry, problem_type) ==
    [ entry_id     |-> entry.entry_id,
      clock_type   |-> entry.clock_type,
      timestamp    |-> entry.timestamp,
      problem_type |-> problem_type ]

\* lines 37-88: the problems one iteration of the loop appends, in its order
EntryProblems(q, i) ==
    (IF IsDoublePunch(q, i) THEN << Problem(q[i], "DOUBLE_PUNCH") >> ELSE <<>>)
    \o (IF IsLongSession(q, i) THEN << Problem(q[i], "LONG_SESSION") >> ELSE <<>>)
    \o (IF IsUnusualHours(q, i) THEN << Problem(q[i], "UNUSUAL_HOURS") >> ELSE <<>>)

\* entry['timestamp'].split('T')[0]: lines 97, 109. The part before the first
\* 'T' is the date of a string written with the 'T' separator and the whole
\* string, which is no date, otherwise.
SplitT(entry) == IF entry.separator = "T" THEN Some(DateOf(entry.timestamp)) ELSE None

\* line 97
MissingClockIn(q, start) == q[1].clock_type = "OUT" /\ SplitT(q[1]) = Some(start)

\* line 109
MissingClockOut(q, end) == q[Len(q)].clock_type = "IN" /\ SplitT(q[Len(q)]) = Some(end)

\* lines 93-119: the problems appended after the loop
BoundaryProblems(q, start, end) ==
    IF q = <<>> THEN <<>>
    ELSE (IF MissingClockIn(q, start)
          THEN << Problem(q[1], "MISSING_CLOCK_IN_START_OF_PERIOD") >> ELSE <<>>)
         \o (IF MissingClockOut(q, end)
             THEN << Problem(q[Len(q)], "MISSING_CLOCK_OUT_END_OF_PERIOD") >> ELSE <<>>)

----------------------------------------------------------------------------
(* generate_biweekly_html_report, biweekly_report_service.py lines 145-470, *)
(* as get_employee_biweekly_report_html calls it (payroll.py lines 468-522) *)
(* In this machine a date is the number of days since Friday 2023-12-29, so *)
(* that Weekday holds of it; CalendarOf gives the year, month and day back. *)
(* Of the HTML only the cells of the table rows are kept.                   *)

MaxReportEntries == 2

ReportYears == {2024, 2025}

Months == 1..12

RECURSIVE DaysBeforeYear(_)
DaysBeforeYear(y) ==
    IF y <= 2024 THEN 0 ELSE DaysBeforeYear(y - 1) + 365 + (IF IsLeap(y - 1) THEN 1 ELSE 0)

RECURSIVE DaysBeforeMonth(_, _)
DaysBeforeMonth(y, month) ==
    IF month = 1 THEN 0 ELSE DaysBeforeMonth(y, month - 1) + LastDay(y, month - 1)

\* the day number of a datetime(year, month, day); 2024-01-01 is day 3
DayNumber(date) == DaysBeforeYear(date.year) + DaysBeforeMonth(date.year, date.month) + date.day + 2

ReportDates ==
    { Date(y, month, day) : y \in ReportYears, month \in Months, day \in 1..31 }

ValidReportDates == { date \in ReportDates : date.day <= LastDay(date.year, date.month) }

\* datetime.strptime(session.date, '%Y-%m-%d'), line 158: the calendar date
\* of a day number
CalendarOf ==
    [ n \in { DayNumber(date) : date \in ValidReportDates } |->
        CHOOSE date \in ValidReportDates : DayNumber(date) = n ]

\* session_date.day, line 159, and current_date.day, line 435
DayOfMonth(n) == CalendarOf[n].day

\* the periods a report is asked for
ReportPeriods == { BiweeklyPeriod(y, month, half) : y \in ReportYears, month \in Months, half \in {1, 2} }

\* the clock readings of the entries of a period: 08:00 and 14:00 of its
\* first day, 09:00 of its last day
ReportTimestamps(p) ==
    { DayNumber(p.start_date) * SecondsPerDay + At(0, 8, 0, 0),
      DayNumber(p.start_date) * SecondsPerDay + At(0, 14, 0, 0),
      DayNumber(p.end_date) * SecondsPerDay + At(0, 9, 0, 0) }

\* payroll.py lines 484-492: the entries of the period in timestamp order
ReportEntries(p) ==
    { q \in SeqsUpTo([employee_id : EmployeeIds, clock_type : ClockTypes,
                      timestamp : ReportTimestamps(p)], MaxReportEntries) :
        \A i \in 1..(Len(q) - 1) : q[i].timestamp <= q[i + 1].timestamp }

\* a cell that shows '--:--' or '--'
Placeholder(text) == << text >>

\* strftime('%H:%M') of a datetime, lines 166-167: the minute of the day
HourMinute(timestamp) == << "%H:%M", (timestamp % SecondsPerDay) \div SecondsPerMinute >>

\* f"{hours:.2f}", lines 168-169: the figure in hundredths
TwoDecimals(hours) == << ".2f", hours >>

\* lines 162-163: raw_hours - 0.5 if raw_hours > 5 else raw_hours
ReportLessBreak(raw_hours) ==
    IF raw_hours > BreakThresholdHours THEN raw_hours - BreakHours ELSE raw_hours

\* lines 165-172: the cells of a complete session
DayData(session) ==
    [ clock_in         |-> HourMinute(session.clock_in),
      clock_out        |-> IF IsNone(session.clock_out) THEN Placeholder("--:--")
                           ELSE HourMinute(Get(session.clock_out)),
      raw_hours        |-> TwoDecimals(HoursOrZero(session)),
      less_break_hours |-> TwoDecimals(ReportLessBreak(HoursOrZero(session))) ]

\* lines 155-172: the dict keyed by day of month; a later session of a day
\* replaces an earlier one
DailyData(sess) ==
    LET complete == CompleteSessions(sess)
        last(day) == CHOOSE i \in 1..Len(complete) :
                        /\ DayOfMonth(complete[i].date) = day
                        /\ \A j \in (i + 1)..Len(complete) : DayOfMonth(complete[j].date) # day
    IN  [ day \in { DayOfMonth(complete[i].date) : i \in 1..Len(complete) } |->
            DayData(complete[last(day)]) ]

\* line 436: daily_data.get(day_of_month, {})
RowData(data, date) ==
    IF DayOfMonth(date) \in DOMAIN data THEN Some(data[DayOfMonth(date)]) ELSE None

\* lines 435-455: the row of current_date
Row(data, date) ==
    LET day_data == RowData(data, date)
    IN  IF IsNone(day_data)
        THEN [ date |-> date, clock_in |-> Placeholder("--:--"), clock_out |-> Placeholder("--:--"),
               raw_hours |-> Placeholder("--"), less_break_hours |-> Placeholder("--"),
               empty_cell |-> TRUE ]
        ELSE [ date |-> date, clock_in |-> Get(day_data).clock_in,
               clock_out |-> Get(day_data).clock_out,
               raw_hours |-> Get(day_data).raw_hours,
               less_break_hours |-> Get(day_data).less_break_hours,
               empty_cell |-> FALSE ]

\* line 415: stats['wage_payout'] of a dict without the key raises KeyError
RaisesKeyError(stats_dict) == IsNone(stats_dict.wage_payout)

----------------------------------------------------------------------------
(* The session and aggregation machine *)

InitSessions ==
    /\ idx = 1
    /\ current_session = None
    /\ sessions = <<>>
    /\ work_sessions = <<>>
    /\ pc = "loop"

InitAggregate ==
    /\ query_date = 0
    /\ daily_summary = None
    /\ payroll_summary = None

\* parse_period_string is not called
PeriodIdle ==
    /\ period = <<>>
    /\ year = None
    /\ period_pc = "idle"
    /\ period_result = Returns(<<>>)

\* calculate_biweekly_stats is not called
StatsIdle ==
    /\ stat_sessions = <<>>
    /\ stats_pc = "idle"
    /\ stats = None

\* generate_biweekly_html_report is not called
ReportIdle ==
    /\ report_period = <<>>
    /\ report_entries = <<>>
    /\ report_sessions = <<>>
    /\ report_stats = None
    /\ daily_data = <<>>
    /\ current_date = <<>>
    /\ rows = <<>>
    /\ report_pc = "idle"

\* the server is not running
ServerIdle ==
    /\ db_entries = <<>>
    /\ qr_sessions = <<>>
    /\ now = 0
    /\ handlers = <<>>
    /\ responses = <<>>

\* no convenience endpoint is called
ConvenienceIdle ==
    /\ today = <<>>
    /\ current_biweekly = None
    /\ previous_biweekly = None

ServicesIdle == ReportIdle /\ ServerIdle /\ ConvenienceIdle

\* detect_time_entry_problems is not called
ProblemsIdle ==
    /\ fetched_entries = <<>>
    /\ query_start = 0
    /\ query_end = 0
    /\ employee_found = FALSE
    /\ pidx = 1
    /\ problems = <<>>
    /\ problems_pc = "idle"

Init ==
    /\ time_entries \in SeqsUpTo(TimeEntry, MaxEntries)
    /\ InitSessions
    /\ InitAggregate
    /\ PeriodIdle
    /\ StatsIdle
    /\ ProblemsIdle
    /\ ServicesIdle

\* one iteration of the for loop of line 14
Iterate ==
    /\ pc = "loop"
    /\ idx <= Len(time_entries)
    /\ IF RaisesTypeError(time_entries[idx], current_session)
       THEN /\ pc' = "raised"
            /\ UNCHANGED <<current_session, sessions, idx>>
       ELSE LET st == LoopBody([cur |-> current_session, out |-> sessions], time_entries[idx])
            IN  /\ current_session' = st.cur
                /\ sessions' = st.out
                /\ idx' = idx + 1
                /\ pc' = pc
    /\ UNCHANGED <<time_entries, work_sessions, aggregateVars, periodVars, statsVars, problemVars, serviceVars>>

\* line 15-24: an IN entry
LoopIn ==
    /\ pc = "loop" /\ idx <= Len(time_entries)
    /\ StartsSession(time_entries[idx], current_session)
    /\ Iterate

\* lines 25-37: an OUT entry with a session open
LoopOut ==
    /\ pc = "loop" /\ idx <= Len(time_entries)
    /\ ~StartsSession(time_entries[idx], current_session)
    /\ CompletesSession(time_entries[idx], current_session)
    /\ Iterate

\* neither branch of lines 15 and 25: the entry is passed over
LoopSkip ==
    /\ pc = "loop" /\ idx <= Len(time_entries)
    /\ ~StartsSession(time_entries[idx], current_session)
    /\ ~CompletesSession(time_entries[idx], current_session)
    /\ Iterate

\* lines 39-60: the loop is over; append the open session, convert, return
Return ==
    /\ pc = "loop"
    /\ idx > Len(time_entries)
    /\ sessions' = HandleIncomplete([cur |-> current_session, out |-> sessions])
    /\ work_sessions' = ConvertSessions(sessions')
    /\ pc' = "done"
    /\ UNCHANGED <<time_entries, idx, current_session, aggregateVars, periodVars, statsVars, problemVars, serviceVars>>

\* a caller hands the sessions to calculate_daily_summary (payroll.py line 113)
DailySummaryCall ==
    /\ pc = "done"
    /\ \E d \in QueryDates :
        /\ query_date' = d
        /\ daily_summary' = CalculateDailySummary(work_sessions, d)
    /\ pc' = "daily"
    /\ UNCHANGED <<time_entries, idx, current_session, sessions, work_sessions, payroll_summary,
                   periodVars, statsVars, problemVars, serviceVars>>

\* a caller hands the sessions to calculate_payroll_summary (payroll.py line 62)
PayrollSummaryCall ==
    /\ pc = "done"
    /\ payroll_summary' = CalculatePayrollSummary(work_sessions, 0, 2)
    /\ pc' = "payroll"
    /\ UNCHANGED <<time_entries, idx, current_session, sessions, work_sessions,
                   query_date, daily_summary, periodVars, statsVars, problemVars, serviceVars>>

Next ==
    \/ LoopIn
    \/ LoopOut
    \/ LoopSkip
    \/ Return
    \/ DailySummaryCall
    \/ PayrollSummaryCall

Spec == Init /\ [][Next]_vars

\* the interpreter runs the call to its end: a step that can be taken is taken
FairSpec == Spec /\ WF_vars(Next)

----------------------------------------------------------------------------
(* The period machine: one call of parse_period_string *)

InitPeriod ==
    /\ period \in Labels
    /\ year \in { None } \cup { Some(y) : y \in Years }
    /\ period_pc = "call"
    /\ period_result = Returns(<<>>)
    /\ time_entries = <<>>
    /\ InitSessions
    /\ InitAggregate
    /\ StatsIdle
    /\ ProblemsIdle
    /\ ServicesIdle

\* the call returns a BiweeklyPeriod (line 96)
ParseReturns ==
    /\ period_pc = "call"
    /\ \E y \in YearChoices(year) :
        /\ period_result' = ParsePeriodString(period, y)
        /\ IsNone(period_result'.raised)
    /\ period_pc' = "returned"
    /\ UNCHANGED <<period, year, sessionVars, aggregateVars, statsVars, problemVars, serviceVars>>

\* the call raises ValueError (lines 63, 73, 84, 94)
ParseRaises ==
    /\ period_pc = "call"
    /\ \E y \in YearChoices(year) :
        /\ period_result' = ParsePeriodString(period, y)
        /\ ~IsNone(period_result'.raised)
    /\ period_pc' = "raised"
    /\ UNCHANGED <<period, year, sessionVars, aggregateVars, statsVars, problemVars, serviceVars>>

NextPeriod ==
    \/ ParseReturns
    \/ ParseRaises

SpecPeriod == InitPeriod /\ [][NextPeriod]_vars

----------------------------------------------------------------------------
(* The statistics machine: one call of calculate_biweekly_stats *)

InitStats ==
    /\ stat_sessions \in SeqsUpTo(StatSessions, MaxSessions)
    /\ stats_pc = "call"
    /\ stats = None
    /\ time_entries = <<>>
    /\ InitSessions
    /\ InitAggregate
    /\ PeriodIdle
    /\ ProblemsIdle
    /\ ServicesIdle

\* lines 100-108: the early return for an empty list
StatsOfNothing ==
    /\ stats_pc = "call"
    /\ stat_sessions = <<>>
    /\ stats' = Some(EmptyStats)
    /\ stats_pc' = "returned"
    /\ UNCHANGED <<stat_sessions, sessionVars, aggregateVars, periodVars, problemVars, serviceVars>>

\* lines 110-143
StatsOfSessions ==
    /\ stats_pc = "call"
    /\ stat_sessions # <<>>
    /\ \E r \in CalculateBiweeklyStats(stat_sessions) : stats' = Some(r)
    /\ stats_pc' = "returned"
    /\ UNCHANGED <<stat_sessions, sessionVars, aggregateVars, periodVars, problemVars, serviceVars>>

NextStats ==
    \/ StatsOfNothing
    \/ StatsOfSessions

SpecStats == InitStats /\ [][NextStats]_vars

----------------------------------------------------------------------------
(* The problem machine: one call of detect_time_entry_problems *)

InitProblems ==
    /\ employee_found \in BOOLEAN
    /\ \E range \in QueryRanges :
        /\ query_start = range[1]
        /\ query_end = range[2]
        /\ fetched_entries \in
              (IF employee_found THEN FetchResults(range[1], range[2]) ELSE { <<>> })
    /\ pidx = 1
    /\ problems = <<>>
    /\ problems_pc = "lookup"
    /\ time_entries = <<>>
    /\ InitSessions
    /\ InitAggregate
    /\ PeriodIdle
    /\ StatsIdle
    /\ ServicesIdle

\* lines 18-21: the employee is unknown, the empty list is returned
EmployeeNotFound ==
    /\ problems_pc = "lookup"
    /\ ~employee_found
    /\ problems_pc' = "returned"
    /\ UNCHANGED <<fetched_entries, query_start, query_end, employee_found, pidx, problems,
                   sessionVars, aggregateVars, periodVars, statsVars, serviceVars>>

\* lines 18-34: the employee is found and the entries are fetched
FetchEntries ==
    /\ problems_pc = "lookup"
    /\ employee_found
    /\ problems_pc' = "scan"
    /\ UNCHANGED <<fetched_entries, query_start, query_end, employee_found, pidx, problems,
                   sessionVars, aggregateVars, periodVars, statsVars, serviceVars>>

\* lines 36-88: one iteration of the loop
ScanEntry ==
    /\ problems_pc = "scan"
    /\ pidx <= Len(fetched_entries)
    /\ problems' = problems \o EntryProblems(fetched_entries, pidx)
    /\ pidx' = pidx + 1
    /\ UNCHANGED <<fetched_entries, query_start, query_end, employee_found, problems_pc,
                   sessionVars, aggregateVars, periodVars, statsVars, serviceVars>>

\* lines 93-121: the loop is over; the boundary checks, then the return
CheckBoundaries ==
    /\ problems_pc = "scan"
    /\ pidx > Len(fetched_entries)
    /\ problems' = problems \o BoundaryProblems(fetched_entries, query_start, query_end)
    /\ problems_pc' = "returned"
    /\ UNCHANGED <<fetched_entries, query_start, query_end, employee_found, pidx,
                   sessionVars, aggregateVars, periodVars, statsVars, serviceVars>>

NextProblems ==
    \/ EmployeeNotFound
    \/ FetchEntries
    \/ ScanEntry
    \/ CheckBoundaries

SpecProblems == InitProblems /\ [][NextProblems]_vars

----------------------------------------------------------------------------
(* The report machine: one request of get_employee_biweekly_report_html *)

InitReport ==
    /\ report_period \in ReportPeriods
    /\ report_entries \in ReportEntries(report_period)
    /\ report_sessions = <<>>
    /\ report_stats = None
    /\ daily_data = <<>>
    /\ current_date = DayNumber(report_period.start_date)
    /\ rows = <<>>
    /\ report_pc = "fetch"
    /\ time_entries = <<>>
    /\ InitSessions
    /\ InitAggregate
    /\ PeriodIdle
    /\ StatsIdle
    /\ ProblemsIdle
    /\ ServerIdle
    /\ ConvenienceIdle

\* payroll.py lines 494-502: the sessions and the statistics of the entries
ReconstructAndStats ==
    /\ report_pc = "fetch"
    /\ report_sessions' = CalculateWorkSessions(report_entries)
    /\ \E r \in CalculateBiweeklyStats(report_sessions') : report_stats' = Some(r)
    /\ report_pc' = "data"
    /\ UNCHANGED <<report_period, report_entries, daily_data, current_date, rows,
                   coreVars, serverVars, convenienceVars>>

\* lines 155-172
BuildDailyData ==
    /\ report_pc = "data"
    /\ daily_data' = DailyData(report_sessions)
    /\ report_pc' = "header"
    /\ UNCHANGED <<report_period, report_entries, report_sessions, report_stats, current_date,
                   rows, coreVars, serverVars, convenienceVars>>

\* lines 175-433: the page head and the statistics cards are rendered
RenderHeader ==
    /\ report_pc = "header"
    /\ ~RaisesKeyError(Get(report_stats))
    /\ current_date' = DayNumber(report_period.start_date)
    /\ report_pc' = "rows"
    /\ UNCHANGED <<report_period, report_entries, report_sessions, report_stats, daily_data,
                   rows, coreVars, serverVars, convenienceVars>>

\* line 415 raises KeyError: no row is rendered
HeaderRaises ==
    /\ report_pc = "header"
    /\ RaisesKeyError(Get(report_stats))
    /\ report_pc' = "raised"
    /\ UNCHANGED <<report_period, report_entries, report_sessions, report_stats, daily_data,
                   current_date, rows, coreVars, serverVars, convenienceVars>>

\* lines 434-458: one iteration of the while loop
RenderRow ==
    /\ report_pc = "rows"
    /\ current_date <= DayNumber(report_period.end_date)
    /\ rows' = Append(rows, Row(daily_data, current_date))
    /\ current_date' = current_date + 1
    /\ UNCHANGED <<report_period, report_entries, report_sessions, report_stats, daily_data,
                   report_pc, coreVars, serverVars, convenienceVars>>

\* lines 460-470: the loop is over, the page is returned
FinishReport ==
    /\ report_pc = "rows"
    /\ current_date > DayNumber(report_period.end_date)
    /\ report_pc' = "done"
    /\ UNCHANGED <<report_period, report_entries, report_sessions, report_stats, daily_data,
                   current_date, rows, coreVars, serverVars, convenienceVars>>

NextReport ==
    \/ ReconstructAndStats
    \/ BuildDailyData
    \/ RenderHeader
    \/ HeaderRaises
    \/ RenderRow
    \/ FinishReport

SpecReport == InitReport /\ [][NextReport]_vars

----------------------------------------------------------------------------
(* The clock endpoints: request_clock_operation, request_qr_clock_operation,  *)
(* validate_clock_operation and cleanup_expired_sessions of clocking.py      *)
(* (lines 36-259) and clock_with_pin_validation of pin_auth.py (lines        *)
(* 108-126).                                                                 *)
(* In this machine the clock counts minutes. A handler is an async function   *)
(* without an await between its statements, so inside one worker process it   *)
(* runs from its first statement to its response; the workers of run.py       *)
(* (lines 39 and 52, ServerConfig.WORKERS) are separate processes over one    *)
(* database file. sqlite3 opens a transaction at the first INSERT, UPDATE or  *)
(* DELETE only, so the SELECT of a handler takes no lock and what it read is  *)
(* kept in the handler until its INSERT.                                      *)
(* All rows written here carry timestamps of one format, so ORDER BY          *)
(* timestamp is the order of the clock readings. wifi_network is left out.    *)

Workers == {1, 2}

\* requests served in one run
MaxRequests == 3

\* ServerConfig.QR_CODE_EXPIRY_MINUTES
QrExpiryMinutes == 3

\* the last reading of the clock: the minute after a session issued at 0 has
\* expired
MaxNow == QrExpiryMinutes + 1

\* the rows of table employees, all active
StoredEmployees == {1}

\* the employee_id of a request
RequestedEmployees == {1, 2}

\* the clock_type field of a ClockRequest, which only the session_id reads
RequestedClockTypes == {"IN"}

\* the worker of a server of one worker
FirstWorker == 1

\* CURRENT_TIMESTAMP is the UTC clock, datetime.now() the local clock of the
\* server: the minutes the local clock is ahead
UtcOffsets == {0, 1}

IdleHandler ==
    [pc |-> "idle", endpoint |-> "none", employee_id |-> 0, session_id |-> <<>>,
     scanned_qr_code |-> <<>>, clock_type |-> "none", at |-> 0]

\* the rows of an employee
EntriesOf(table, e) == { i \in 1..Len(table) : table[i].employee_id = e }

\* SELECT clock_type ... ORDER BY timestamp DESC LIMIT 1 (lines 91-98,
\* 226-233): None, or the clock_type of a row with the greatest timestamp;
\* among rows of equal timestamp SQLite may return any
LastEntries(table, e) ==
    IF EntriesOf(table, e) = {} THEN { None }
    ELSE { Some(table[i].clock_type) :
             i \in { j \in EntriesOf(table, e) :
                       \A k \in EntriesOf(table, e) : table[k].timestamp <= table[j].timestamp } }

\* mutant: a first punch is recorded as OUT
NextClockType_OutFirst(last_entry) ==
    IF ~IsNone(last_entry) /\ Get(last_entry) = "OUT" THEN "IN" ELSE "OUT"

\* lines 99 and 234
NextClockType(last_entry) ==
    IF IsNone(last_entry) \/ Get(last_entry) = "OUT" THEN "IN" ELSE "OUT"

\* clock_record_id, line 103
ClockRecordId(e, t) == <<"WIFI_CLOCK", e, t>>

\* generate_qr_code_content, line 172
QrCodeContent(e, t) == <<"QR", e, t>>

\* session_id, line 173: the digest of employee_id, timestamp and clock_type
SessionId(e, t, clock_type) == <<e, t, clock_type>>

\* cleanup_expired_sessions, lines 36-44
CleanupExpiredSessions(table, t) == SelectSeq(table, LAMBDA s : ~(s.expires_at < t))

\* mutant: the used flag is not consulted
SessionUsed_Never(session) == FALSE

\* line 219
SessionUsed(session) == session.used

\* line 222
SessionExpired(session, t) == session.expires_at < t

\* the SELECT of lines 207-214
FindSession(table, session_id, qr_code) ==
    { i \in 1..Len(table) : table[i].session_id = session_id /\ table[i].qr_code = qr_code }

\* UPDATE qr_sessions SET used = TRUE WHERE session_id = ?, lines 243-245
MarkUsed(table, session_id) ==
    [ i \in 1..Len(table) |->
        IF table[i].session_id = session_id THEN [table[i] EXCEPT !.used = TRUE] ELSE table[i] ]

\* the INSERT of lines 105-108 and 237-240; entry_id is the AUTOINCREMENT key
InsertEntry(table, e, clock_type, t, qr_code_used) ==
    Append(table, [entry_id |-> Len(table) + 1, employee_id |-> e, clock_type |-> clock_type,
                   timestamp |-> t, qr_code_used |-> qr_code_used])

\* a response: subject is the employee_id or the session_id of the request,
\* at the clock reading of the cleanup a validation began with
Response(endpoint, status, subject, clock_type, at) ==
    [endpoint |-> endpoint, status |-> status, subject |-> subject, clock_type |-> clock_type,
     at |-> at]

\* requests accepted so far
Started == Len(responses) + Cardinality({ w \in Workers : handlers[w].pc # "idle" })

CanStart(w) == handlers[w].pc = "idle" /\ Started < MaxRequests

\* no worker is inside a handler
AllIdle == \A w \in Workers : handlers[w].pc = "idle"

Reply(w, r) ==
    /\ responses' = Append(responses, r)
    /\ handlers' = [handlers EXCEPT ![w] = IdleHandler]

\* a request turned away by the employee, PIN or WiFi check: the HTTPException
\* of status 404, 401 or 403 is the whole response, nothing is stored for it
\* and it is not kept in responses
Reject(w, status) ==
    /\ status \in {401, 403, 404}
    /\ UNCHANGED <<handlers, responses>>

InitServer ==
    /\ time_entries = <<>>
    /\ InitSessions
    /\ InitAggregate
    /\ PeriodIdle
    /\ StatsIdle
    /\ ProblemsIdle
    /\ ReportIdle
    /\ ConvenienceIdle
    /\ db_entries = <<>>
    /\ qr_sessions = <<>>
    /\ now = 0
    /\ handlers = [w \in Workers |-> IdleHandler]
    /\ responses = <<>>

\* time passes
Tick ==
    /\ now < MaxNow
    /\ now' = now + 1
    /\ UNCHANGED <<db_entries, qr_sessions, handlers, responses, coreVars, reportVars, convenienceVars>>

\* clock_with_pin_validation lines 112-126 and request_clock_operation lines
\* 53-99: the checks and the SELECT of the last entry
BeginClockRequest(w) ==
    /\ CanStart(w)
    /\ \E endpoint \in {"request", "pin-request"}, e \in RequestedEmployees,
          pin_valid \in BOOLEAN, wifi_valid \in BOOLEAN :
        IF e \notin StoredEmployees
        THEN Reject(w, 404)
        ELSE IF endpoint = "pin-request" /\ ~pin_valid
        THEN Reject(w, 401)
        ELSE IF ~wifi_valid
        THEN Reject(w, 403)
        ELSE /\ \E last_entry \in LastEntries(db_entries, e) :
                  handlers' = [handlers EXCEPT ![w] =
                      [pc |-> "insert", endpoint |-> endpoint, employee_id |-> e,
                       session_id |-> <<>>, scanned_qr_code |-> <<>>,
                       clock_type |-> NextClockType(last_entry), at |-> 0]]
             /\ UNCHANGED responses
    /\ UNCHANGED <<db_entries, qr_sessions, now, coreVars, reportVars, convenienceVars>>

\* request_clock_operation lines 102-122: the INSERT with timestamp
\* datetime.now(), the commit and the response
InsertClockEntry(w) ==
    /\ handlers[w].pc = "insert"
    /\ handlers[w].endpoint \in {"request", "pin-request"}
    /\ db_entries' = InsertEntry(db_entries, handlers[w].employee_id, handlers[w].clock_type,
                                 now, ClockRecordId(handlers[w].employee_id, now))
    /\ Reply(w, Response(handlers[w].endpoint, 200, handlers[w].employee_id,
                         Some(handlers[w].clock_type), handlers[w].at))
    /\ UNCHANGED <<qr_sessions, now, coreVars, reportVars, convenienceVars>>

\* request_qr_clock_operation, lines 124-196; session_id is the primary key
\* of qr_sessions, a second row of the same key raises IntegrityError
RequestQr(w) ==
    /\ CanStart(w)
    /\ \E e \in RequestedEmployees, clock_type \in RequestedClockTypes, wifi_valid \in BOOLEAN :
        LET cleaned == CleanupExpiredSessions(qr_sessions, now)
            session_id == SessionId(e, now, clock_type)
        IN  IF e \notin StoredEmployees
            THEN /\ qr_sessions' = cleaned
                 /\ Reject(w, 404)
            ELSE IF ~wifi_valid
            THEN /\ qr_sessions' = cleaned
                 /\ Reject(w, 403)
            ELSE IF \E i \in 1..Len(cleaned) : cleaned[i].session_id = session_id
            THEN /\ qr_sessions' = cleaned
                 /\ Reply(w, Response("qr-request", 500, session_id, None, 0))
            ELSE /\ qr_sessions' = Append(cleaned,
                        [session_id |-> session_id, employee_id |-> e,
                         qr_code |-> QrCodeContent(e, now),
                         expires_at |-> now + QrExpiryMinutes, used |-> FALSE])
                 /\ Reply(w, Response("qr-request", 200, session_id, None, 0))
    /\ UNCHANGED <<db_entries, now, coreVars, reportVars, convenienceVars>>

\* the sessions handed out so far
IssuedSessions ==
    { responses[i].subject :
        i \in { j \in 1..Len(responses) :
                  responses[j].endpoint = "qr-request" /\ responses[j].status = 200 } }

\* validate_clock_operation line 202: the cleanup
BeginValidate(w) ==
    /\ CanStart(w)
    /\ \E session_id \in IssuedSessions :
        \E scanned \in {QrCodeContent(session_id[1], session_id[2]), <<"QR", 0, 0>>} :
            handlers' = [handlers EXCEPT ![w] =
                [pc |-> "check", endpoint |-> "validate", employee_id |-> session_id[1],
                 session_id |-> session_id, scanned_qr_code |-> scanned,
                 clock_type |-> "none", at |-> now]]
    /\ qr_sessions' = CleanupExpiredSessions(qr_sessions, now)
    /\ UNCHANGED <<db_entries, now, responses, coreVars, reportVars, convenienceVars>>

\* validate_clock_operation lines 205-234: the session is looked up and
\* checked, the last entry read
CheckSession(w) ==
    /\ handlers[w].pc = "check"
    /\ LET h == handlers[w]
           found == FindSession(qr_sessions, h.session_id, h.scanned_qr_code)
       IN  IF found = {}
           THEN Reply(w, Response("validate", 404, h.session_id, None, h.at))
           ELSE LET session == qr_sessions[CHOOSE i \in found : TRUE]
                IN  IF SessionUsed(session)
                    THEN Reply(w, Response("validate", 409, h.session_id, None, h.at))
                    ELSE IF SessionExpired(session, now)
                    THEN Reply(w, Response("validate", 410, h.session_id, None, h.at))
                    ELSE /\ \E last_entry \in LastEntries(db_entries, session.employee_id) :
                              handlers' = [handlers EXCEPT ![w] =
                                  [h EXCEPT !.pc = "insert",
                                            !.clock_type = NextClockType(last_entry)]]
                         /\ UNCHANGED responses
    /\ UNCHANGED <<db_entries, qr_sessions, now, coreVars, reportVars, convenienceVars>>

\* validate_clock_operation lines 237-259: the INSERT with the column default
\* CURRENT_TIMESTAMP, the session marked used, the commit and the response
InsertValidatedEntry(w) ==
    /\ handlers[w].pc = "insert"
    /\ handlers[w].endpoint = "validate"
    /\ \E offset \in UtcOffsets :
        db_entries' = InsertEntry(db_entries, handlers[w].employee_id, handlers[w].clock_type,
                                  now - offset, handlers[w].scanned_qr_code)
    /\ qr_sessions' = MarkUsed(qr_sessions, handlers[w].session_id)
    /\ Reply(w, Response("validate", 200, handlers[w].session_id,
                         Some(handlers[w].clock_type), handlers[w].at))
    /\ UNCHANGED <<now, coreVars, reportVars, convenienceVars>>

\* one worker (ServerConfig.WORKERS = 1, the default): a request is taken up
\* when the handler of the one before has responded
NextClock ==
    \/ Tick
    \/ AllIdle /\ BeginClockRequest(FirstWorker)
    \/ InsertClockEntry(FirstWorker)
    \/ AllIdle /\ RequestQr(FirstWorker)
    \/ AllIdle /\ BeginValidate(FirstWorker)
    \/ CheckSession(FirstWorker)
    \/ InsertValidatedEntry(FirstWorker)

SpecClock == InitServer /\ [][NextClock]_vars

\* several workers (ServerConfig.WORKERS > 1): each worker takes up requests
\* on its own
NextWorkers ==
    \/ Tick
    \/ \E w \in Workers : BeginClockRequest(w)
    \/ \E w \in Workers : InsertClockEntry(w)
    \/ \E w \in Workers : RequestQr(w)
    \/ \E w \in Workers : BeginValidate(w)
    \/ \E w \in Workers : CheckSession(w)
    \/ \E w \in Workers : InsertValidatedEntry(w)

SpecWorkers == InitServer /\ [][NextWorkers]_vars


----------------------------------------------------------------------------
(* The convenience endpoints get_current_biweekly_report and                 *)
(* get_previous_biweekly_report, payroll.py lines 532-578: each builds a     *)
(* period label and a year from today and hands them to                      *)
(* get_employee_biweekly_report, which parses them (line 386).               *)

\* the years today is taken from: a leap year, the years before and after it
TodayYears == {2023, 2024, 2025}

TodayDates ==
    { Date(y, m, d) : y \in TodayYears, m \in 1..12, d \in 1..31 } \ 
    { dt \in { Date(y, m, d) : y \in TodayYears, m \in 1..12, d \in 1..31 } :
        dt.day > LastDay(dt.year, dt.month) }

\* f"{calendar.month_name[month]}{half}", lines 539, 541, 572, 575
PeriodLabel(month, half) == MonthName[month] \o (IF half = 1 THEN <<"1">> ELSE <<"2">>)

\* lines 538-543: the label and the year of the current period
CurrentPeriodRequest(date) ==
    [ period |-> PeriodLabel(date.month, IF date.day <= 15 THEN 1 ELSE 2),
      year   |-> date.year ]

\* mutant: the year is not stepped back in January
PreviousPeriodRequest_SameYear(date) ==
    IF date.day <= 15
    THEN [ period |-> PeriodLabel(IF date.month = 1 THEN 12 ELSE date.month - 1, 2),
           year   |-> date.year ]
    ELSE [ period |-> PeriodLabel(date.month, 1), year |-> date.year ]

\* lines 563-578: the label and the year of the previous period
PreviousPeriodRequest(date) ==
    IF date.day <= 15
    THEN IF date.month = 1
         THEN [ period |-> PeriodLabel(12, 2), year |-> date.year - 1 ]
         ELSE [ period |-> PeriodLabel(date.month - 1, 2), year |-> date.year ]
    ELSE [ period |-> PeriodLabel(date.month, 1), year |-> date.year ]

\* get_employee_biweekly_report line 386: parse_period_string(period, year)
RequestedPeriod(request) == ParsePeriodString(request.period, request.year)

InitConvenience ==
    /\ today \in TodayDates
    /\ current_biweekly = None
    /\ previous_biweekly = None
    /\ time_entries = <<>>
    /\ InitSessions
    /\ InitAggregate
    /\ PeriodIdle
    /\ StatsIdle
    /\ ProblemsIdle
    /\ ReportIdle
    /\ ServerIdle

\* get_current_biweekly_report, lines 532-543
GetCurrentBiweeklyReport ==
    /\ IsNone(current_biweekly)
    /\ current_biweekly' = Some(RequestedPeriod(CurrentPeriodRequest(today)))
    /\ UNCHANGED <<today, previous_biweekly, coreVars, reportVars, serverVars>>

\* get_previous_biweekly_report, lines 558-578
GetPreviousBiweeklyReport ==
    /\ IsNone(previous_biweekly)
    /\ previous_biweekly' = Some(RequestedPeriod(PreviousPeriodRequest(today)))
    /\ UNCHANGED <<today, current_biweekly, coreVars, reportVars, serverVars>>

NextConvenience ==
    \/ GetCurrentBiweeklyReport
    \/ GetPreviousBiweeklyReport

SpecConvenience == InitConvenience /\ [][NextConvenience]_vars


----------------------------------------------------------------------------
(* The endpoints that look a row up before they act: get_employee_timesheet  *)
(* and get_employee_biweekly_report of payroll.py (lines 27-70, 367-447),    *)
(* edit_time_entry and delete_time_entry of admin.py (lines 200-235,         *)
(* 286-322). Each handler body runs inside `try:`; what it raises meets the  *)
(* except clauses at the end of the handler. The body of a 200 response is   *)
(* what the aggregation machines compute and is left out.                    *)

\* rows of time_entries when the first request arrives
MaxStored == 2

\* requests served in one run
MaxLookups == 2

\* the entry_id of a request: the stored ones and one that is not stored
RequestedEntryIds == 1..(MaxStored + 1)

\* new_timestamp of an edit
EditTimestamps == {0, 5}

\* the tables the admin endpoints may find: n rows of employee 1 with
\* entry_id 1..n
StoredTables ==
    { [ i \in 1..n |-> [entry_id |-> i, employee_id |-> 1, clock_type |-> types[i],
                        timestamp |-> i, qr_code_used |-> ClockRecordId(1, i)] ] :
        n \in 0..MaxStored, types \in [1..MaxStored -> ClockTypes] }

HTTPException(status) == [class |-> "HTTPException", status_code |-> status]
ValueError == [class |-> "ValueError", status_code |-> 0]

\* isinstance(exc, cls): ValueError and HTTPException both derive from
\* Exception
IsInstance(exc, cls) == cls = "Exception" \/ exc.class = cls

\* what a handler body did: returned, or raised exc
Returned200 == [raised |-> None]
Raised(exc) == [raised |-> Some(exc)]

\* payroll.py lines 66-70 and 443-447: except ValueError answers 400, except
\* Exception logs and answers 500
ReportExceptClauses(exc) ==
    IF IsInstance(exc, "ValueError") THEN 400
    ELSE IF IsInstance(exc, "Exception") THEN 500
    ELSE exc.status_code

\* admin.py lines 233-235 and 320-322: except Exception logs and answers 500
AdminExceptClauses(exc) ==
    IF IsInstance(exc, "Exception") THEN 500 ELSE exc.status_code

\* the rows of the given entry_id: admin.py lines 209-210, 295-301
RowsOfId(table, entry_id) == { i \in 1..Len(table) : table[i].entry_id = entry_id }

\* a response of these endpoints: raised is what the handler body raised
LookupResponse(endpoint, subject, outcome, status) ==
    [endpoint |-> endpoint, subject |-> subject, raised |-> outcome.raised, status |-> status]

InitLookups ==
    /\ time_entries = <<>>
    /\ InitSessions
    /\ InitAggregate
    /\ PeriodIdle
    /\ StatsIdle
    /\ ProblemsIdle
    /\ ReportIdle
    /\ ConvenienceIdle
    /\ db_entries \in StoredTables
    /\ qr_sessions = <<>>
    /\ now = 0
    /\ handlers = <<>>
    /\ responses = <<>>

\* get_employee_timesheet, payroll.py lines 27-70: strptime raises ValueError
\* for a malformed date (lines 29-30), an unknown employee raises
\* HTTPException(404) (lines 38-39)
GetEmployeeTimesheet ==
    /\ Len(responses) < MaxLookups
    /\ \E e \in RequestedEmployees, dates_valid \in BOOLEAN :
        LET outcome == IF ~dates_valid THEN Raised(ValueError)
                       ELSE IF e \notin StoredEmployees THEN Raised(HTTPException(404))
                       ELSE Returned200
            status == IF IsNone(outcome.raised) THEN 200
                      ELSE ReportExceptClauses(Get(outcome.raised))
        IN  responses' = Append(responses, LookupResponse("timesheet", e, outcome, status))
    /\ UNCHANGED <<db_entries, qr_sessions, now, handlers, coreVars, reportVars, convenienceVars>>

\* get_employee_biweekly_report, payroll.py lines 367-447:
\* parse_period_string raises ValueError for a malformed label (line 386), an
\* unknown employee raises HTTPException(404) (lines 394-395)
GetEmployeeBiweeklyReport ==
    /\ Len(responses) < MaxLookups
    /\ \E e \in RequestedEmployees, period_valid \in BOOLEAN :
        LET outcome == IF ~period_valid THEN Raised(ValueError)
                       ELSE IF e \notin StoredEmployees THEN Raised(HTTPException(404))
                       ELSE Returned200
            status == IF IsNone(outcome.raised) THEN 200
                      ELSE ReportExceptClauses(Get(outcome.raised))
        IN  responses' = Append(responses, LookupResponse("biweekly-report", e, outcome, status))
    /\ UNCHANGED <<db_entries, qr_sessions, now, handlers, coreVars, reportVars, convenienceVars>>

\* edit_time_entry, admin.py lines 200-235
EditTimeEntry ==
    /\ Len(responses) < MaxLookups
    /\ \E entry_id \in RequestedEntryIds, new_clock_type \in ClockTypes,
          new_timestamp \in EditTimestamps :
        LET found == RowsOfId(db_entries, entry_id)
            outcome == IF found = {} THEN Raised(HTTPException(404)) ELSE Returned200
            status == IF IsNone(outcome.raised) THEN 200
                      ELSE AdminExceptClauses(Get(outcome.raised))
        IN  /\ db_entries' =
                  [ i \in 1..Len(db_entries) |->
                      IF i \in found
                      THEN [db_entries[i] EXCEPT !.clock_type = new_clock_type,
                                                 !.timestamp = new_timestamp]
                      ELSE db_entries[i] ]
            /\ responses' = Append(responses, LookupResponse("edit", entry_id, outcome, status))
    /\ UNCHANGED <<qr_sessions, now, handlers, coreVars, reportVars, convenienceVars>>

\* delete_time_entry, admin.py lines 286-322
DeleteTimeEntry ==
    /\ Len(responses) < MaxLookups
    /\ \E entry_id \in RequestedEntryIds :
        LET found == RowsOfId(db_entries, entry_id)
            outcome == IF found = {} THEN Raised(HTTPException(404)) ELSE Returned200
            status == IF IsNone(outcome.raised) THEN 200
                      ELSE AdminExceptClauses(Get(outcome.raised))
        IN  /\ db_entries' = SelectSeq(db_entries, LAMBDA row : row.entry_id # entry_id)
            /\ responses' = Append(responses, LookupResponse("delete", entry_id, outcome, status))
    /\ UNCHANGED <<qr_sessions, now, handlers, coreVars, reportVars, convenienceVars>>

NextLookups ==
    \/ GetEmployeeTimesheet
    \/ GetEmployeeBiweeklyReport
    \/ EditTimeEntry
    \/ DeleteTimeEntry

SpecLookups == InitLookups /\ [][NextLookups]_vars

----------------------------------------------------------------------------
(* Properties of calculate_work_sessions *)

Kind(i) == time_entries[i].clock_type
Ts(i) == time_entries[i].timestamp
NumEntries == Len(time_entries)

\* calculate_work_sessions has returned work_sessions
Returned == pc \in {"done", "daily", "payroll"}

RemoveAt(q, i) == SubSeq(q, 1, i - 1) \o SubSeq(q, i + 1, Len(q))

\* the input has even length, starts with IN and strictly alternates
Alternating ==
    /\ NumEntries % 2 = 0
    /\ \A i \in 1..NumEntries : Kind(i) = (IF i % 2 = 1 THEN "IN" ELSE "OUT")

\* C1: an even-length input that starts with IN and strictly alternates yields
\* exactly N/2 sessions, all complete, the k-th pairing entry 2k-1 (clock_in)
\* with entry 2k (clock_out).
C1_AlternatingPairs ==
    (Returned /\ Alternating) =>
        /\ Len(work_sessions) = NumEntries \div 2
        /\ \A k \in 1..Len(work_sessions) :
            /\ work_sessions[k].is_complete
            /\ work_sessions[k].clock_in = Ts(2 * k - 1)
            /\ work_sessions[k].clock_out = Some(Ts(2 * k))

C1_Witness ==
    /\ Returned /\ Alternating /\ NumEntries = 4
    /\ Len(work_sessions) = 2
    /\ Ts(1) < Ts(2) /\ Ts(2) < Ts(3) /\ Ts(3) < Ts(4)

\* some IN exists and no OUT follows the last IN
TrailingIn ==
    \E i \in 1..NumEntries :
        /\ Kind(i) = "IN"
        /\ \A j \in (i + 1)..NumEntries : Kind(j) # "IN" /\ Kind(j) # "OUT"

LastInIndex == CHOOSE i \in 1..NumEntries :
    Kind(i) = "IN" /\ \A j \in (i + 1)..NumEntries : Kind(j) # "IN"

IncompleteIndexes == { k \in 1..Len(work_sessions) : ~work_sessions[k].is_complete }

\* C2: the output holds an incomplete session iff the last IN of the input is
\* followed by no OUT; then there is exactly one, it is the last session, its
\* clock_in is that IN and it has no clock_out and no duration.
C2_TrailingInIncomplete ==
    Returned =>
        /\ (IncompleteIndexes # {}) <=> TrailingIn
        /\ TrailingIn =>
            /\ IncompleteIndexes = { Len(work_sessions) }
            /\ work_sessions[Len(work_sessions)].clock_in = Ts(LastInIndex)
            /\ work_sessions[Len(work_sessions)].clock_out = None
            /\ work_sessions[Len(work_sessions)].duration_minutes = None
            /\ work_sessions[Len(work_sessions)].duration_hours = None

C2_Witness ==
    /\ Returned /\ TrailingIn
    /\ Len(work_sessions) = 2
    /\ work_sessions[1].is_complete /\ ~work_sessions[2].is_complete

\* entry i is an OUT at the head of the input or directly after another OUT
OrphanOut(i) == Kind(i) = "OUT" /\ (i = 1 \/ Kind(i - 1) = "OUT")

\* C3: an OUT processed while no session is open (a leading OUT, or an OUT
\* directly after an OUT) emits nothing and leaves the loop state unchanged;
\* deleting it from the input yields the same list of sessions.
C3_OrphanOutIgnored ==
    /\ (pc = "loop" /\ idx <= NumEntries /\ Kind(idx) = "OUT") =>
          /\ IsNone(current_session) <=> OrphanOut(idx)
          /\ IsNone(current_session) =>
                LoopBody([cur |-> current_session, out |-> sessions], time_entries[idx])
                    = [cur |-> current_session, out |-> sessions]
    /\ Returned =>
          \A i \in 1..NumEntries :
              OrphanOut(i) => CalculateWorkSessions(RemoveAt(time_entries, i)) = work_sessions

C3_Witness ==
    /\ Returned
    /\ NumEntries = 4
    /\ OrphanOut(1) /\ OrphanOut(4)
    /\ Len(work_sessions) = 1

\* the INs that are not directly followed by another IN, in input order
SurvivingIns ==
    SortedSeq({ i \in 1..NumEntries :
                  Kind(i) = "IN" /\ (i = NumEntries \/ Kind(i + 1) # "IN") })

\* C4: last-IN-wins. The open slot always holds the most recent IN; an IN that
\* is directly followed by another IN never gets a session, and the next OUT
\* closes the most recent IN. IN(t1), IN(t2), OUT(t3) yields the one session
\* (t2, t3).
C4_LastInWins ==
    /\ (pc = "loop" /\ idx > 1 /\ Kind(idx - 1) = "IN") =>
          /\ ~IsNone(current_session)
          /\ Get(current_session).clock_in = Ts(idx - 1)
    /\ Returned =>
          /\ Len(work_sessions) = Len(SurvivingIns)
          /\ \A k \in 1..Len(work_sessions) :
              /\ work_sessions[k].clock_in = Ts(SurvivingIns[k])
              /\ work_sessions[k].clock_out =
                    (IF SurvivingIns[k] < NumEntries
                     THEN Some(Ts(SurvivingIns[k] + 1)) ELSE None)
    /\ (Returned /\ NumEntries = 3 /\ Kind(1) = "IN" /\ Kind(2) = "IN" /\ Kind(3) = "OUT") =>
          /\ Len(work_sessions) = 1
          /\ work_sessions[1].clock_in = Ts(2)
          /\ work_sessions[1].clock_out = Some(Ts(3))

C4_Witness ==
    /\ Returned /\ NumEntries = 3
    /\ Kind(1) = "IN" /\ Kind(2) = "IN" /\ Kind(3) = "OUT"
    /\ Ts(1) < Ts(2) /\ Ts(2) < Ts(3)
    /\ Len(work_sessions) = 1

\* C5: every returned WorkSession has is_complete = (clock_out is present), and
\* duration_minutes and duration_hours are present iff it is complete.
C5_CompleteIffClockOut ==
    Returned =>
        \A k \in 1..Len(work_sessions) :
            /\ work_sessions[k].is_complete <=> ~IsNone(work_sessions[k].clock_out)
            /\ ~IsNone(work_sessions[k].duration_minutes) <=> work_sessions[k].is_complete
            /\ ~IsNone(work_sessions[k].duration_hours) <=> work_sessions[k].is_complete

C5_Witness ==
    /\ Returned
    /\ \E k \in 1..Len(work_sessions) :
        work_sessions[k].is_complete /\ work_sessions[k].duration_hours = Some(0)
    /\ \E k \in 1..Len(work_sessions) : ~work_sessions[k].is_complete

----------------------------------------------------------------------------
(* Properties of calculate_daily_summary and calculate_payroll_summary *)

NoSessionOn(date) == \A k \in 1..Len(work_sessions) : work_sessions[k].date # date

\* C6: dailySummary(sessions, D) is absent whenever no session has date D, also
\* when the list is not empty; it never is a summary with an empty session list.
C6_AbsentWithoutSessionOnDate ==
    pc = "daily" =>
        /\ NoSessionOn(query_date) => IsNone(daily_summary)
        /\ ~IsNone(daily_summary) => Get(daily_summary).sessions # <<>>

\* C7: every DailySummary has regular_hours = min(total_hours, 8),
\* overtime_hours = max(0, total_hours - 8) and regular + overtime = total.
C7_RegularPlusOvertime ==
    (pc = "daily" /\ ~IsNone(daily_summary)) =>
        LET d == Get(daily_summary)
        IN  /\ d.regular_hours = (IF d.total_hours <= 800 THEN d.total_hours ELSE 800)
            /\ d.overtime_hours = (IF d.total_hours - 800 >= 0 THEN d.total_hours - 800 ELSE 0)
            /\ d.regular_hours + d.overtime_hours = d.total_hours

C7_Witness ==
    /\ pc = "daily" /\ ~IsNone(daily_summary)
    /\ Get(daily_summary).total_hours > 800
    /\ Get(daily_summary).overtime_hours > 0
    /\ Len(Get(daily_summary).sessions) = 2

SessionDates == { work_sessions[k].date : k \in 1..Len(work_sessions) }

\* C8: a PayrollSummary's total, regular and overtime hours are the sums of the
\* field over its daily_summaries; daily_summaries holds exactly one entry per
\* distinct clock-in date of the sessions and none for any other date, and
\* total_days_worked is the number of those dates.
C8_TotalsAreSums ==
    (pc = "payroll" /\ ~IsNone(payroll_summary)) =>
        LET p == Get(payroll_summary)
            n == Len(p.daily_summaries)
        IN  /\ p.total_hours = SumSeq([ i \in 1..n |-> p.daily_summaries[i].total_hours ])
            /\ p.regular_hours = SumSeq([ i \in 1..n |-> p.daily_summaries[i].regular_hours ])
            /\ p.overtime_hours = SumSeq([ i \in 1..n |-> p.daily_summaries[i].overtime_hours ])
            /\ { p.daily_summaries[i].date : i \in 1..n } = SessionDates
            /\ n = Cardinality(SessionDates)
            /\ \A i \in 1..n : p.daily_summaries[i].sessions # <<>>
            /\ p.total_days_worked = Cardinality(SessionDates)

C8_Witness ==
    /\ pc = "payroll" /\ ~IsNone(payroll_summary)
    /\ Get(payroll_summary).total_days_worked = 2
    /\ Get(payroll_summary).overtime_hours > 0
    /\ Get(payroll_summary).regular_hours > 800

----------------------------------------------------------------------------
(* Properties of parse_period_string and BiweeklyPeriod *)

PeriodValue == Get(period_result.value)

\* the number of days of a month of the Gregorian calendar
CalendarLastDay(y, month) ==
    IF month = 2
    THEN (IF y % 400 = 0 \/ (y % 4 = 0 /\ y % 100 # 0) THEN 29 ELSE 28)
    ELSE IF month \in {4, 6, 9, 11} THEN 30 ELSE 31

HalfDigit(h) == IF h = 1 THEN <<"1">> ELSE <<"2">>

\* C9: for every year, month and half in {1, 2} the period runs from day 1 to
\* day 15 (half 1) or from day 16 to the last calendar day of the month
\* (half 2); the month and half are those the label names.
\* ("July2", 2025) gives 2025-07-16..2025-07-31, ("Mar1", 2025) gives
\* 2025-03-01..2025-03-15.
C9_HalfMonthRange ==
    period_pc = "returned" =>
        /\ PeriodValue.half \in {1, 2}
        /\ PeriodValue.month \in 1..12
        /\ ~IsNone(year) => PeriodValue.year = Get(year)
        /\ PeriodValue.start_date =
              [ year  |-> PeriodValue.year, month |-> PeriodValue.month,
                day   |-> IF PeriodValue.half = 1 THEN 1 ELSE 16 ]
        /\ PeriodValue.end_date =
              [ year  |-> PeriodValue.year, month |-> PeriodValue.month,
                day   |-> IF PeriodValue.half = 1 THEN 15
                          ELSE CalendarLastDay(PeriodValue.year, PeriodValue.month) ]
        /\ \A m \in 1..12 : \A h \in {1, 2} :
              period \in { MonthName[m] \o HalfDigit(h), SubSeq(MonthName[m], 1, 3) \o HalfDigit(h) }
                  => PeriodValue.month = m /\ PeriodValue.half = h
        /\ (period = <<"J", "u", "l", "y", "2">> /\ year = Some(2025)) =>
              /\ PeriodValue.start_date = [ year |-> 2025, month |-> 7, day |-> 16 ]
              /\ PeriodValue.end_date = [ year |-> 2025, month |-> 7, day |-> 31 ]
        /\ (period = <<"M", "a", "r", "1">> /\ year = Some(2025)) =>
              /\ PeriodValue.start_date = [ year |-> 2025, month |-> 3, day |-> 1 ]
              /\ PeriodValue.end_date = [ year |-> 2025, month |-> 3, day |-> 15 ]

C9_Witness ==
    /\ period_pc = "returned"
    /\ period = <<"F", "e", "b", "2">>
    /\ year = Some(2024)
    /\ PeriodValue.end_date = [ year |-> 2024, month |-> 2, day |-> 29 ]

\* the label without the whitespace around it
Trimmed(label) ==
    LET inked == { i \in 1..Len(label) : label[i] \notin Whitespace }
    IN  IF inked = {} THEN <<>>
        ELSE SubSeq(label,
                    CHOOSE i \in inked : \A j \in inked : i <= j,
                    CHOOSE i \in inked : \A j \in inked : i >= j)

\* the month names and their first three letters, in lower case
MonthTokenSet ==
    { Lower(MonthName[m]) : m \in 1..12 } \cup { Lower(SubSeq(MonthName[m], 1, 3)) : m \in 1..12 }

\* token is, whatever the case of its letters, a month name or its first three letters
IsMonthToken(token) == Lower(token) \in MonthTokenSet

\* the label, trimmed, is a month token directly followed by "1" or "2"
ExactLabel(label) ==
    LET t == Trimmed(label)
    IN  /\ Len(t) >= 2
        /\ IsMonthToken(SubSeq(t, 1, Len(t) - 1))
        /\ t[Len(t)] \in {"1", "2"}

\* C10 as claimed: the call succeeds iff the trimmed label is a month token
\* followed by exactly "1" or "2"; any other suffix (such as "01") fails.
C10_OnlyExactLabels ==
    period_pc \in {"returned", "raised"} =>
        (period_pc = "returned" <=> ExactLabel(period))

\* text is an integer literal of value 1 or 2: a digit string ending in 1 or 2
\* whose other characters are zeros, with single underscores allowed between
\* digits
LiteralOneOrTwo(text) ==
    /\ text # <<>>
    /\ text[Len(text)] \in {"1", "2"}
    /\ text[1] \in {"0", "1", "2"}
    /\ \A i \in 1..(Len(text) - 1) :
          /\ text[i] \in {"0", "_"}
          /\ text[i] = "_" => text[i + 1] # "_"

\* the label, trimmed, splits at its first digit into a month token and an
\* integer literal of value 1 or 2, whitespace allowed around either part
LenientLabel(label) ==
    LET t == Trimmed(label)
    IN  \E i \in 1..Len(t) :
          /\ t[i] \in Digits
          /\ \A j \in 1..(i - 1) : t[j] \notin Digits
          /\ IsMonthToken(Trimmed(SubSeq(t, 1, i - 1)))
          /\ LiteralOneOrTwo(SubSeq(t, i, Len(t)))

\* C10 (amended): the call succeeds iff the trimmed label splits at its first
\* digit into a month token (a month name or its first three letters, any
\* case, whitespace around it ignored) and a text that int() reads as 1 or 2
\* ("1", "2", and also "01", "002", "0_1"); otherwise it raises ValueError and
\* returns no period.
C10_LenientLabels ==
    period_pc \in {"returned", "raised"} =>
        /\ period_pc = "returned" <=> LenientLabel(period)
        /\ period_pc = "returned" =>
              IsNone(period_result.raised) /\ ~IsNone(period_result.value)
        /\ period_pc = "raised" =>
              ~IsNone(period_result.raised) /\ IsNone(period_result.value)

C10_Witness ==
    /\ period_pc = "returned"
    /\ period = <<"J", "u", "l", "y", "0", "1">>
    /\ PeriodValue.month = 7 /\ PeriodValue.half = 1

\* the cases the claim lists all raise
C10_FailureWitness ==
    /\ period_pc = "raised"
    /\ period = <<"F", "o", "o", "3">>

----------------------------------------------------------------------------
(* Properties of calculate_biweekly_stats *)

StatsReturned == stats_pc = "returned"

NumSessions == Len(stat_sessions)

\* the payable hours of session i as the rule states them
PayableHours(i) ==
    LET s == stat_sessions[i]
    IN  IF ~s.is_complete THEN 0
        ELSE IF Get(s.duration_hours) > 500 THEN Get(s.duration_hours) - 50
        ELSE Get(s.duration_hours)

\* C11: less_break_hours is the sum over the complete sessions of d - 0.5 when
\* the duration d is strictly greater than 5 hours and of d otherwise;
\* incomplete sessions contribute nothing.
C11_LessBreakHours ==
    StatsReturned =>
        Get(stats).less_break_hours = SumSeq([ i \in 1..NumSessions |-> PayableHours(i) ])

\* a session of exactly 5.0 hours, a longer one and an incomplete one were summed
C11_Witness ==
    /\ StatsReturned
    /\ \E i \in 1..NumSessions :
        stat_sessions[i].is_complete /\ stat_sessions[i].duration_hours = Some(500)
    /\ \E i \in 1..NumSessions :
        stat_sessions[i].is_complete /\ Get(stat_sessions[i].duration_hours) > 500
    /\ \E i \in 1..NumSessions : ~stat_sessions[i].is_complete

\* calculate_biweekly_stats was given complete sessions of 6.0 h, 5.5 h and 7.0 h
SixFiveAndAHalfSeven ==
    /\ NumSessions = 3
    /\ \A i \in 1..3 : stat_sessions[i].is_complete
    /\ [ i \in 1..3 |-> Get(stat_sessions[i].duration_hours) ] = <<600, 550, 700>>

\* C12 as stated: the three sessions give less_break_hours = 17.5
C12_SeventeenAndAHalf ==
    (StatsReturned /\ SixFiveAndAHalfSeven) => Get(stats).less_break_hours = 1750

\* C12: complete sessions of 6.0 h, 5.5 h and 7.0 h give less_break_hours =
\* 17.0 (5.5 + 5.0 + 6.5): each of the three is longer than 5 hours and loses
\* the half-hour break.
C12_Seventeen ==
    (StatsReturned /\ SixFiveAndAHalfSeven) =>
        /\ Get(stats).less_break_hours = 1700
        /\ Get(stats).total_hours = 1850

C12_Witness == StatsReturned /\ SixFiveAndAHalfSeven

\* C13: the statistics of every session list, the empty one included, hold a
\* wage_payout equal to less_break_hours times the hourly rate.
C13_WagePayoutField ==
    StatsReturned =>
        /\ ~IsNone(Get(stats).wage_payout)
        /\ Get(Get(stats).wage_payout) = Get(stats).less_break_hours * 13

\* the statistics of the empty list have been returned
C13_EmptyListReturned == StatsReturned /\ stat_sessions = <<>>

\* for a non-empty list the field is present and is the product
C13_NonEmptyWagePayout ==
    (StatsReturned /\ stat_sessions # <<>>) =>
        Get(stats).wage_payout = Some(Get(stats).less_break_hours * 13)

----------------------------------------------------------------------------
(* Properties of detect_time_entry_problems *)

\* detect_time_entry_problems has returned the list built from fetched_entries
ProblemsReturned == problems_pc = "returned" /\ employee_found

NumFetched == Len(fetched_entries)

\* the number of problems of a category that flag the entry at position i
Flags(category, i) ==
    Cardinality({ k \in 1..Len(problems) :
        /\ problems[k].problem_type = category
        /\ problems[k].entry_id = fetched_entries[i].entry_id
        /\ problems[k].timestamp = fetched_entries[i].timestamp
        /\ problems[k].clock_type = fetched_entries[i].clock_type })

GapSeconds(i) == fetched_entries[i].timestamp - fetched_entries[i - 1].timestamp

SameKindAsPrevious(i) == fetched_entries[i].clock_type = fetched_entries[i - 1].clock_type

\* C14: the event at position i >= 2 is flagged DOUBLE_PUNCH, once, if and
\* only if the event before it has the same kind and the gap is strictly less
\* than 5 minutes; the first event is never flagged.
C14_DoublePunch ==
    ProblemsReturned =>
        /\ \A i \in 2..NumFetched :
            Flags("DOUBLE_PUNCH", i) =
                (IF SameKindAsPrevious(i) /\ GapSeconds(i) < 300 THEN 1 ELSE 0)
        /\ NumFetched >= 1 => Flags("DOUBLE_PUNCH", 1) = 0

\* a pair of the same kind 3 minutes apart was flagged, and a pair of the same
\* kind exactly 5 minutes apart and a close pair of different kinds were not
C14_Witness ==
    /\ ProblemsReturned
    /\ \E i \in 2..NumFetched :
        SameKindAsPrevious(i) /\ GapSeconds(i) = 180 /\ Flags("DOUBLE_PUNCH", i) = 1
    /\ \E i \in 2..NumFetched :
        \/ SameKindAsPrevious(i) /\ GapSeconds(i) = 300 /\ Flags("DOUBLE_PUNCH", i) = 0
        \/ ~SameKindAsPrevious(i) /\ GapSeconds(i) < 300 /\ Flags("DOUBLE_PUNCH", i) = 0

OutAfterIn(i) ==
    fetched_entries[i].clock_type = "OUT" /\ fetched_entries[i - 1].clock_type = "IN"

\* C15: an event is flagged LONG_SESSION, once, if and only if it is an OUT
\* that immediately follows an IN by strictly more than 12 hours.
C15_LongSession ==
    ProblemsReturned =>
        /\ \A i \in 2..NumFetched :
            Flags("LONG_SESSION", i) =
                (IF OutAfterIn(i) /\ GapSeconds(i) > 12 * 3600 THEN 1 ELSE 0)
        /\ NumFetched >= 1 => Flags("LONG_SESSION", 1) = 0

\* IN 09:00, OUT 23:30 of the same day gave exactly one LONG_SESSION
C15_Witness ==
    /\ ProblemsReturned
    /\ NumFetched = 2
    /\ fetched_entries[1].clock_type = "IN" /\ fetched_entries[1].timestamp = At(0, 9, 0, 0)
    /\ fetched_entries[2].clock_type = "OUT" /\ fetched_entries[2].timestamp = At(0, 23, 30, 0)
    /\ Flags("LONG_SESSION", 2) = 1
    /\ Len(SelectSeq(problems, LAMBDA p : p.problem_type = "LONG_SESSION")) = 1

\* IN 09:00, OUT 21:00 of the same day, exactly 12 hours, gave no LONG_SESSION
C15_ExactlyTwelveWitness ==
    /\ ProblemsReturned
    /\ \E i \in 2..NumFetched :
        OutAfterIn(i) /\ GapSeconds(i) = 12 * 3600 /\ Flags("LONG_SESSION", i) = 0

Hour(i) == (fetched_entries[i].timestamp % 86400) \div 3600

\* C16 as stated: every event with hour < 4 or hour >= 23 is flagged
\* UNUSUAL_HOURS and no event with an hour from 4 to 22 is.
C16_UnusualHours ==
    ProblemsReturned =>
        \A i \in 1..NumFetched :
            Flags("UNUSUAL_HOURS", i) = (IF Hour(i) < 4 \/ Hour(i) >= 23 THEN 1 ELSE 0)

\* what the code does: only the hours before 4 are flagged
C16_OnlyBeforeFour ==
    ProblemsReturned =>
        \A i \in 1..NumFetched :
            Flags("UNUSUAL_HOURS", i) = (IF Hour(i) < 4 THEN 1 ELSE 0)

FirstIsOutOnStart ==
    fetched_entries[1].clock_type = "OUT" /\ fetched_entries[1].timestamp \div 86400 = query_start

LastIsInOnEnd ==
    /\ fetched_entries[NumFetched].clock_type = "IN"
    /\ fetched_entries[NumFetched].timestamp \div 86400 = query_end

\* the problems of a category
OfCategory(category) == SelectSeq(problems, LAMBDA p : p.problem_type = category)

\* C17 as stated: for a non-empty result, whatever wrote its rows,
\* MISSING_CLOCK_IN_START_OF_PERIOD is reported, for the first event, if and
\* only if the first event is an OUT dated start, and
\* MISSING_CLOCK_OUT_END_OF_PERIOD, for the last event, if and only if the
\* last event is an IN dated end.
C17_MissingPunches ==
    (ProblemsReturned /\ NumFetched >= 1) =>
        /\ Len(OfCategory("MISSING_CLOCK_IN_START_OF_PERIOD")) =
              (IF FirstIsOutOnStart THEN 1 ELSE 0)
        /\ Flags("MISSING_CLOCK_IN_START_OF_PERIOD", 1) = (IF FirstIsOutOnStart THEN 1 ELSE 0)
        /\ Len(OfCategory("MISSING_CLOCK_OUT_END_OF_PERIOD")) =
              (IF LastIsInOnEnd THEN 1 ELSE 0)
        /\ Flags("MISSING_CLOCK_OUT_END_OF_PERIOD", NumFetched) =
              (IF LastIsInOnEnd THEN 1 ELSE 0)

\* what the code does: the same, but only for a first or last row whose
\* timestamp was written with the 'T' separator
C17_OnlyIsoformatRows ==
    (ProblemsReturned /\ NumFetched >= 1) =>
        /\ Flags("MISSING_CLOCK_IN_START_OF_PERIOD", 1) =
              (IF FirstIsOutOnStart /\ fetched_entries[1].separator = "T" THEN 1 ELSE 0)
        /\ Flags("MISSING_CLOCK_OUT_END_OF_PERIOD", NumFetched) =
              (IF LastIsInOnEnd /\ fetched_entries[NumFetched].separator = "T" THEN 1 ELSE 0)

\* the place in fetched_entries of the event a problem flags
FlaggedPosition(p) == CHOOSE i \in 1..NumFetched : fetched_entries[i].entry_id = p.entry_id

\* C18 as stated: the list is in event order, the MISSING_* problems included.
C18_EventOrder ==
    ProblemsReturned =>
        \A k \in 1..Len(problems) : \A l \in (k + 1)..Len(problems) :
            FlaggedPosition(problems[k]) <= FlaggedPosition(problems[l])

Boundary(p) ==
    p.problem_type \in {"MISSING_CLOCK_IN_START_OF_PERIOD", "MISSING_CLOCK_OUT_END_OF_PERIOD"}

\* what the code does: the problems found by the loop are in event order and
\* the MISSING_* problems follow all of them
C18_LoopOrderThenBoundary ==
    ProblemsReturned =>
        \A k \in 1..Len(problems) : \A l \in (k + 1)..Len(problems) :
            /\ (~Boundary(problems[k]) /\ ~Boundary(problems[l])) =>
                  FlaggedPosition(problems[k]) <= FlaggedPosition(problems[l])
            /\ Boundary(problems[k]) => Boundary(problems[l])

----------------------------------------------------------------------------
(* Properties across reports *)

\* time_entries is an employee's history as ORDER BY timestamp ASC returns it
InTimestampOrder == \A i \in 1..(NumEntries - 1) : Ts(i) <= Ts(i + 1)

\* the total hours a timesheet reports; no summary reports no hours
ReportedHours(summary) == IF IsNone(summary) THEN 0 ELSE Get(summary).total_hours

\* C19 as stated: the hours reported for the range [0, 2] are the sum of the
\* hours reported for [0, b] and [b + 1, 2], each report built from the
\* entries dated inside its own range.
C19_AdditiveOverSubRanges ==
    (pc = "payroll" /\ InTimestampOrder) =>
        \A b \in {0, 1} :
            ReportedHours(payroll_summary) =
                ReportedHours(EmployeeTimesheet(time_entries, 0, b))
                + ReportedHours(EmployeeTimesheet(time_entries, b + 1, 2))

\* the report of the whole range is the timesheet of the history
C19_WholeRangeIsTimesheet ==
    (pc = "payroll" /\ InTimestampOrder) =>
        payroll_summary = EmployeeTimesheet(time_entries, 0, 2)

----------------------------------------------------------------------------
(* Failure semantics of calculate_work_sessions *)

\* C20: for every sequence of IN and OUT entries, in any order of kinds and
\* of timestamps, calculate_work_sessions never raises, its loop never runs
\* past the entries, and it returns a list of sessions.
C20_NeverRaisesAndReturns ==
    /\ [](pc # "raised")
    /\ [](pc = "loop" => idx <= NumEntries + 1)
    /\ [](Returned => Len(work_sessions) <= NumEntries)
    /\ <>Returned

\* the function has returned for an input that starts with an OUT, repeats a
\* kind, and holds an OUT earlier than the IN before it
C20_Witness ==
    /\ Returned
    /\ NumEntries >= 3
    /\ Kind(1) = "OUT"
    /\ \E i \in 2..NumEntries : Kind(i) = Kind(i - 1)
    /\ \E i \in 2..NumEntries : Kind(i - 1) = "IN" /\ Kind(i) = "OUT" /\ Ts(i) < Ts(i - 1)

----------------------------------------------------------------------------
(* Durations of the sessions of calculate_work_sessions *)

NumWorkSessions == Len(work_sessions)

\* C21: for entries in ascending timestamp order, every complete session has
\* clock_out >= clock_in and durations >= 0, and every session ends no later
\* than the next one starts.
C21_SortedInputNoNegativeNoOverlap ==
    (Returned /\ InTimestampOrder) =>
        /\ \A k \in 1..NumWorkSessions :
            work_sessions[k].is_complete =>
                /\ Get(work_sessions[k].clock_out) >= work_sessions[k].clock_in
                /\ Get(work_sessions[k].duration_minutes) >= 0
                /\ Get(work_sessions[k].duration_hours) >= 0
        /\ \A k \in 1..(NumWorkSessions - 1) :
            /\ work_sessions[k].is_complete
            /\ Get(work_sessions[k].clock_out) <= work_sessions[k + 1].clock_in

\* two complete sessions were built from four entries in timestamp order
C21_Witness ==
    /\ Returned
    /\ InTimestampOrder
    /\ NumEntries = 4
    /\ NumWorkSessions = 2
    /\ work_sessions[1].is_complete /\ work_sessions[2].is_complete
    /\ Get(work_sessions[1].duration_minutes) > 0

\* clock_out - clock_in of a complete session, in seconds
TotalSeconds(k) == Get(work_sessions[k].clock_out) - work_sessions[k].clock_in

\* C22 as stated: the duration_minutes of every complete session is
\* floor(total_seconds / 60), a negative total_seconds included.
C22_FloorMinutes ==
    Returned =>
        \A k \in 1..NumWorkSessions :
            work_sessions[k].is_complete =>
                work_sessions[k].duration_minutes = Some(TotalSeconds(k) \div 60)

\* what the code does: int() drops the fraction, which is the floor only of a
\* total_seconds that is not negative
C22_TruncatedMinutes ==
    Returned =>
        \A k \in 1..NumWorkSessions :
            work_sessions[k].is_complete =>
                work_sessions[k].duration_minutes =
                    Some(IF TotalSeconds(k) >= 0 THEN TotalSeconds(k) \div 60
                         ELSE -((-TotalSeconds(k)) \div 60))

----------------------------------------------------------------------------
(* Properties of the biweekly report grid *)

\* the request has ended, with the page or with an error
ReportEnded == report_pc \in {"done", "raised"}

PeriodStart == DayNumber(report_period.start_date)
PeriodEnd == DayNumber(report_period.end_date)

\* a complete session is dated on the day
HasCompleteSession(date) ==
    \E i \in 1..Len(report_sessions) :
        report_sessions[i].is_complete /\ report_sessions[i].date = date

ShowsPlaceholders(row) ==
    /\ row.clock_in = <<"--:--">>
    /\ row.clock_out = <<"--:--">>
    /\ row.raw_hours = <<"--">>
    /\ row.less_break_hours = <<"--">>

\* one row for each day of the period, in ascending order
OneRowPerDay ==
    /\ Len(rows) = PeriodEnd - PeriodStart + 1
    /\ \A i \in 1..Len(rows) : rows[i].date = PeriodStart + i - 1
    /\ Len(rows) = (IF report_period.half = 1 THEN 15
                    ELSE CalendarLastDay(report_period.year, report_period.month) - 15)
    /\ \A i \in 1..Len(rows) : ShowsPlaceholders(rows[i]) <=> ~HasCompleteSession(rows[i].date)

\* C23 as stated: whatever sessions exist, the grid of the report has one row
\* for each day of the period, in ascending order, and a day without a
\* complete session shows placeholders.
C23_OneRowPerDay == ReportEnded => OneRowPerDay

\* what the code does: the grid is complete whenever the page is returned,
\* which needs at least one session
C23_GridWhenRendered ==
    /\ report_pc = "done" => OneRowPerDay
    /\ report_pc = "raised" => report_sessions = <<>>
    /\ report_pc \in {"rows", "done"} => report_sessions # <<>>

----------------------------------------------------------------------------
(* The sessions a DailySummary counts *)

\* the hours of session k when it is complete and dated on the day, else 0
HoursOn(k, date) ==
    IF work_sessions[k].date = date /\ work_sessions[k].is_complete
    THEN Get(work_sessions[k].duration_hours) ELSE 0

IncompleteOn(date) ==
    \E k \in 1..NumWorkSessions : work_sessions[k].date = date /\ ~work_sessions[k].is_complete

\* C24: the total_hours of the DailySummary of date D is the sum of the
\* durations of the complete sessions dated D; has_incomplete_session holds
\* if and only if a session dated D is incomplete.
C24_DailyCountsOwnDate ==
    (pc = "daily" /\ ~IsNone(daily_summary)) =>
        /\ Get(daily_summary).total_hours =
              SumSeq([ k \in 1..NumWorkSessions |-> HoursOn(k, query_date) ])
        /\ Get(daily_summary).has_incomplete_session <=> IncompleteOn(query_date)

\* the summary of a day with a complete session, asked while another day has
\* an incomplete one
C24_Witness ==
    /\ pc = "daily" /\ ~IsNone(daily_summary)
    /\ Get(daily_summary).total_hours > 0
    /\ ~Get(daily_summary).has_incomplete_session
    /\ \E k \in 1..NumWorkSessions :
        work_sessions[k].date # query_date /\ ~work_sessions[k].is_complete

\* the summary of a day whose only session is incomplete: 0 hours, flag set
C24_IncompleteWitness ==
    /\ pc = "daily" /\ ~IsNone(daily_summary)
    /\ Get(daily_summary).total_hours = 0
    /\ Get(daily_summary).has_incomplete_session
    /\ \E k \in 1..NumWorkSessions :
        work_sessions[k].date # query_date /\ work_sessions[k].is_complete

----------------------------------------------------------------------------
(* Properties of the clock endpoints *)

NumStored == Len(db_entries)

\* every stored entry was written by /clock/request or /clock/pin-request
ClockRequestsOnly ==
    \A i \in 1..NumStored : db_entries[i].qr_code_used[1] = "WIFI_CLOCK"

\* each entry was stored with a later timestamp than the one before
IncreasingTimestamps ==
    \A i \in 1..(NumStored - 1) : db_entries[i].timestamp < db_entries[i + 1].timestamp

\* the responses of the clock requests that stored an entry, oldest first
ClockResponses ==
    SelectSeq(responses,
              LAMBDA r : r.endpoint \in {"request", "pin-request"} /\ r.status = 200)

\* C25: with requests handled one at a time, only clock requests writing and
\* their timestamps increasing, the entries of the employee in timestamp order
\* are IN, OUT, IN, ...: the first request records IN, each later one OUT if
\* the latest entry is IN and IN if it is OUT, and each response reports the
\* clock type it stored.
C25_SequentialRequestsAlternate ==
    (ClockRequestsOnly /\ IncreasingTimestamps) =>
        /\ \A i \in 1..NumStored :
            db_entries[i].clock_type = (IF i % 2 = 1 THEN "IN" ELSE "OUT")
        /\ Len(ClockResponses) = NumStored
        /\ \A i \in 1..NumStored :
            ClockResponses[i].clock_type = Some(db_entries[i].clock_type)

\* three clock requests, of both endpoints, have stored IN, OUT, IN
C25_Witness ==
    /\ ClockRequestsOnly
    /\ IncreasingTimestamps
    /\ NumStored = 3
    /\ \E i, j \in 1..3 :
        ClockResponses[i].endpoint = "request" /\ ClockResponses[j].endpoint = "pin-request"

\* C26: when the handlers of two clock requests of one employee interleave
\* between workers, the stored entries of the employee, in timestamp order,
\* still hold no two consecutive entries of one clock type.
C26_NoRepeatedTypeWhenInterleaved ==
    (ClockRequestsOnly /\ IncreasingTimestamps) =>
        \A i \in 1..(NumStored - 1) : db_entries[i].clock_type # db_entries[i + 1].clock_type

\* both workers hold the clock type they derived from the same last entry
C26_BothReadBeforeEitherWrote ==
    /\ \A w \in Workers : handlers[w].pc = "insert" /\ handlers[w].endpoint = "request"
    /\ \A v, w \in Workers : handlers[v].clock_type = handlers[w].clock_type

\* the responses to the validations of a session, oldest first
ValidationsOf(session_id) ==
    SelectSeq(responses, LAMBDA r : r.endpoint = "validate" /\ r.subject = session_id)

\* the entries stored for the QR code of a session
EntriesOfSession(session_id) ==
    { i \in 1..NumStored :
        db_entries[i].qr_code_used = QrCodeContent(session_id[1], session_id[2]) }

\* expires_at of a session, line 171
ExpiresAt(session_id) == session_id[2] + QrExpiryMinutes

Accepted(q) == { i \in 1..Len(q) : q[i].status = 200 }

\* C27: with requests handled one at a time, a QR session yields at most one
\* time entry: only an accepted validation stores an entry, every validation
\* after the accepted one is rejected (409 while the session row exists, 404
\* once cleanup has deleted it), and a validation that arrives after
\* expires_at is rejected.
C27_OneEntryPerSession ==
    \A session_id \in IssuedSessions :
        LET v == ValidationsOf(session_id)
        IN  /\ Cardinality(EntriesOfSession(session_id)) <= 1
            /\ Cardinality(EntriesOfSession(session_id)) = Cardinality(Accepted(v))
            /\ \A i, j \in 1..Len(v) :
                (i < j /\ v[i].status = 200) => v[j].status \in {404, 409}
            /\ \A i \in 1..Len(v) :
                v[i].at > ExpiresAt(session_id) => v[i].status \in {404, 410}

\* a session was validated and the same session id and QR code, presented
\* again before expiry, were turned away with 409
C27_Witness ==
    \E session_id \in IssuedSessions :
        LET v == ValidationsOf(session_id)
        IN  /\ Len(v) = 2
            /\ v[1].status = 200
            /\ v[2].status = 409
            /\ v[2].at <= ExpiresAt(session_id)
            /\ Cardinality(EntriesOfSession(session_id)) = 1

\* an unused session was presented after expires_at and turned away
C27_ExpiredWitness ==
    \E session_id \in IssuedSessions :
        LET v == ValidationsOf(session_id)
        IN  /\ Len(v) = 1
            /\ v[1].at > ExpiresAt(session_id)
            /\ v[1].status = 404
            /\ EntriesOfSession(session_id) = {}

\* an unused session expired between the cleanup and the check of line 222
C27_ExpiredAtCheckWitness ==
    \E session_id \in IssuedSessions :
        LET v == ValidationsOf(session_id)
        IN  /\ Len(v) = 1
            /\ v[1].status = 410
            /\ EntriesOfSession(session_id) = {}

----------------------------------------------------------------------------
(* Properties of the convenience endpoints *)

\* the date one day after a date
NextDay(date) ==
    IF date.day < LastDay(date.year, date.month) THEN Date(date.year, date.month, date.day + 1)
    ELSE IF date.month < 12 THEN Date(date.year, date.month + 1, 1)
    ELSE Date(date.year + 1, 1, 1)

BothServed == ~IsNone(current_biweekly) /\ ~IsNone(previous_biweekly)

CurrentPeriod == Get(Get(current_biweekly).value)
PreviousPeriod == Get(Get(previous_biweekly).value)

\* C28: whatever date today is, both labels parse, the current period is half
\* 1 of today's month when the day is at most 15 and half 2 otherwise, it
\* holds today, and the previous period ends on the day before the current
\* period starts; for a day of January 1-15 the previous period is December 2
\* of the year before.
C28_PreviousEndsBeforeCurrent ==
    BothServed =>
        /\ IsNone(Get(current_biweekly).raised)
        /\ IsNone(Get(previous_biweekly).raised)
        /\ CurrentPeriod.half = (IF today.day <= 15 THEN 1 ELSE 2)
        /\ CurrentPeriod.year = today.year /\ CurrentPeriod.month = today.month
        /\ CurrentPeriod.start_date.day <= today.day /\ today.day <= CurrentPeriod.end_date.day
        /\ NextDay(PreviousPeriod.end_date) = CurrentPeriod.start_date
        /\ (today.month = 1 /\ today.day <= 15) =>
              /\ PreviousPeriod.year = today.year - 1
              /\ PreviousPeriod.month = 12
              /\ PreviousPeriod.half = 2

\* today is 2025-01-10: the periods served are January 1 of 2025 and
\* December 2 of 2024
C28_Witness ==
    /\ BothServed
    /\ today = Date(2025, 1, 10)
    /\ CurrentPeriod.start_date = Date(2025, 1, 1)
    /\ PreviousPeriod.end_date = Date(2024, 12, 31)

\* today is 2024-03-01: the previous period ends on the leap day
C28_LeapWitness ==
    /\ BothServed
    /\ today = Date(2024, 3, 1)
    /\ PreviousPeriod.end_date = Date(2024, 2, 29)

----------------------------------------------------------------------------
(* Properties of the endpoints that look a row up *)

\* the handler found no such employee or time entry
NotFound(r) == r.raised = Some(HTTPException(404))

\* C29: a timesheet or biweekly report asked for an unknown employee, and an
\* edit or delete of an unknown time entry, is answered 404 and not the 500
\* of a failure.
C29_NotFoundIsAnswered404 ==
    \A i \in 1..Len(responses) : NotFound(responses[i]) => responses[i].status = 404

\* what the code does instead: every not-found is answered 500
C29_NotFoundIsAnswered500 ==
    \A i \in 1..Len(responses) : NotFound(responses[i]) => responses[i].status = 500

\* a request that finds nothing changes no stored row
C29_NotFoundChangesNothing ==
    [][(Len(responses') = Len(responses) + 1 /\ NotFound(responses'[Len(responses')]))
          => db_entries' = db_entries]_vars

\* each of the four endpoints was asked for something that is not stored
C29_Reached ==
    /\ Len(responses) = 2
    /\ NotFound(responses[1]) /\ responses[1].endpoint = "timesheet"
    /\ NotFound(responses[2]) /\ responses[2].endpoint = "delete"

----------------------------------------------------------------------------
(* The two reports over one list of sessions *)

\* calculate_payroll_summary has returned a PayrollSummary
HasPayrollSummary == pc = "payroll" /\ ~IsNone(payroll_summary)

\* C30: for the sessions reconstructed for one employee, total_hours of the
\* PayrollSummary (the sum of the per-day totals) is total_hours of
\* calculate_biweekly_stats for the same list (the sum of duration_hours over
\* the complete sessions); for an empty list there is no PayrollSummary and
\* the statistics count 0 hours.
C30_SameTotalHours ==
    pc = "payroll" =>
        \A stats_dict \in CalculateBiweeklyStats(work_sessions) :
            IF IsNone(payroll_summary)
            THEN work_sessions = <<>> /\ stats_dict.total_hours = 0
            ELSE Get(payroll_summary).total_hours = stats_dict.total_hours

\* two complete sessions of one date, so that a per-day total sums two
\* sessions
C30_Witness ==
    /\ HasPayrollSummary
    /\ Len(work_sessions) = 2
    /\ \A k \in 1..2 : work_sessions[k].is_complete
    /\ work_sessions[1].date = work_sessions[2].date
    /\ Len(Get(payroll_summary).daily_summaries) = 1
    /\ Get(payroll_summary).total_hours > 0

============================================================================
